---- MODULE Spec2Model ----
(***************************************************************************)
(* The profitability decision / execution pipeline of the three bots:      *)
(*   swap    liquidatorArbitrageSwap       (src/unnamed/part_000)          *)
(*   claim   getClaimerProfitablePrizeTxs  (claimerProfitablePrizeTxs.ts)  *)
(*   auction prepareDrawAuctionTxs         (drawAuction.ts)                *)
(*                                                                         *)
(* Units.  USD figures are JavaScript floats in the source; here they are  *)
(* integers counted in thousandths of a dollar (UsdUnit per dollar), so    *)
(* that a figure can differ from its two-decimal rounding.  Token amounts  *)
(* are integers in the token's base unit, converted with FormatUnits.      *)
(* The native token is counted with NativeTokenDecimals decimals.          *)
(***************************************************************************)
EXTENDS Integers, Sequences, FiniteSets, TLC

\* ------------------------------------------------------------------ bounds
\* Largest number of liquidation pairs discovery returns.
MaxPairs == 2

\* ------------------------------------------------------- program constants
\* ethers.constants.MaxInt256, the largest amount the model represents.
MaxInt256 == 2147483647
\* const divisor = 2 in calculateAmounts.
divisor == 2
\* MIN_PROFIT_THRESHOLD_USD of the claimer, in dollars.
MIN_PROFIT_THRESHOLD_USD == 5
\* gasLimit handed to the relay by the swap bot and by the auction bot.
SwapGasLimit == 600000
AuctionGasLimit == 8000000
\* Decimals of the chain's native token (stands for 18).
NativeTokenDecimals == 3

\* Thousandths of a dollar per dollar.
UsdUnit == 10 * 10 * 10

\* ------------------------------------------------------------ input values
Bots == {"swap", "claim", "auction"}
\* minProfitThresholdUsd of the configuration: $4.99 and $5.00.
ThresholdValues == {4990, 5000}
\* Number of vaults the subgraph returns.
VaultCounts == {0, 1}
\* context.relayer.tokenInBalance / tokenInAllowance of a pair.
BalanceValues == {50000, 79996, 80000, 200000}
AllowanceValues == {0, MaxInt256}
\* liquidationPair.maxAmountOut() and computeExactAmountIn(wantedAmountOut).
MaxAmountOutValues == {0, 185, 1000}
AmountInValues == {80000}
\* Decimals of tokenOut, of tokenIn and of the claimer's fee token.
SwapTokenDecimals == 0
TokenInDecimals == 3
FeeTokenDecimals == 3
\* Market rates, thousandths of a dollar per whole token.
RateValues == {UsdUnit}
\* estimateGas: the call rejects (failed) or returns gas units.
GasValues == {[failed |-> TRUE, units |-> 0],
              [failed |-> FALSE, units |-> 0],
              [failed |-> FALSE, units |-> 100]}
\* estimateGas of the swap call.
SwapGasValues == {[failed |-> TRUE, units |-> 0], [failed |-> FALSE, units |-> 100]}
\* provider.getFeeData(): lastBaseFeePerGas and maxFeePerGas.
BaseFeePerGasValues == {250}
MaxFeePerGasValues == {500, 1000}
\* Auction context values.
RngFeeAmountValues == {0, 10}
RngFeeBalanceValues == {5, 10}
RngFeeAllowanceValues == {0, 10}
RngRewardUsdValues == {105000}
DrawRewardUsdValues == {55000, 55004}
\* Claim context values: the winners' claims and claimPrizes' totalFees.
ClaimsValues == {<<>>, <<"w1", "w2">>}
TotalFeesValues == {[ok |-> FALSE, totalFees |-> 0],
                    [ok |-> TRUE, totalFees |-> 67500]}

\* ------------------------------------------------------------- conversions
RECURSIVE Pow10(_)
Pow10(n) == IF n = 0 THEN 1 ELSE 10 * Pow10(n - 1)

\* parseFloat(ethers.utils.formatUnits(amount, decimals)), in thousandths.
FormatUnits(amount, decimals) == (amount * UsdUnit) \div Pow10(decimals)

\* parseFloat(formatUnits(amount, decimals)) * assetRateUsd.
AmountUsd(amount, decimals, rateUsd) ==
    (FormatUnits(amount, decimals) * rateUsd) \div UsdUnit

\* Math.round to two decimal places: the nearest hundredth, halves upwards.
roundTwoDecimalPlaces(usd) == ((usd + 5) \div 10) * 10

\* Mutant of getFeesUsd: the average is the maximum-fee estimate.
getFeesUsd_avgIsMax(estimatedGasLimit, nativeTokenMarketRateUsd, feeData) ==
    LET baseFeeWei == feeData.lastBaseFeePerGas * estimatedGasLimit
        maxFeeWei  == feeData.maxFeePerGas * estimatedGasLimit
        baseFeeUsd == AmountUsd(baseFeeWei, NativeTokenDecimals, nativeTokenMarketRateUsd)
        maxFeeUsd  == AmountUsd(maxFeeWei, NativeTokenDecimals, nativeTokenMarketRateUsd)
    IN  [baseFeeUsd |-> baseFeeUsd,
         maxFeeUsd  |-> maxFeeUsd,
         avgFeeUsd  |-> maxFeeUsd]

\* getFeesUsd: gas units times the base / max fee per gas, converted to the
\* native unit and multiplied by the native token's USD rate.
getFeesUsd(estimatedGasLimit, nativeTokenMarketRateUsd, feeData) ==
    LET baseFeeWei == feeData.lastBaseFeePerGas * estimatedGasLimit
        maxFeeWei  == feeData.maxFeePerGas * estimatedGasLimit
        baseFeeUsd == AmountUsd(baseFeeWei, NativeTokenDecimals, nativeTokenMarketRateUsd)
        maxFeeUsd  == AmountUsd(maxFeeWei, NativeTokenDecimals, nativeTokenMarketRateUsd)
    IN  [baseFeeUsd |-> baseFeeUsd,
         maxFeeUsd  |-> maxFeeUsd,
         avgFeeUsd  |-> (baseFeeUsd + maxFeeUsd) \div 2]

\* canUseIsPrivate(chainId, useFlashbots).
canUseIsPrivate(chainSupportsPrivate, useFlashbots) ==
    chainSupportsPrivate /\ useFlashbots

FeeDataValues ==
    [lastBaseFeePerGas : BaseFeePerGasValues, maxFeePerGas : MaxFeePerGasValues]

NoFees == [baseFeeUsd |-> 0, maxFeeUsd |-> 0, avgFeeUsd |-> 0]

\* ------------------------------------------------------------------- state
VARIABLES
    bot,          \* which pipeline this run executes
    params,       \* the configuration handed in by the caller
    numPairs,     \* liquidationPairs.length
    pc,           \* position of the pipeline function
    outcome,      \* "running", "returned" or "threw"
    i,            \* loop index of liquidatorArbitrageSwap (1-based)
    context,      \* the snapshot of the current opportunity
    amounts,      \* result of calculateAmounts
    contract,     \* auction contract picked by determineContractToUse
    gas,          \* the gas estimate and fees of the current opportunity
    profit,       \* the figures of the latest calculateProfit
    decision,     \* per opportunity: whether calculateProfit ran, its answer
    stats,        \* Stat[] of liquidatorArbitrageSwap
    total,        \* estimatedProfitUsdTotal of the summary
    approvals,    \* ERC-20 approve calls issued, with their status
    approvePc,    \* position of the auction's un-awaited approve() call
    relayTxs,     \* transactions handed to relayer.sendTransaction
    transactionsPopulated, \* the list getClaimerProfitablePrizeTxs returns
    log           \* <<opportunity, operation>> in the order performed

vars == <<bot, params, numPairs, pc, outcome, i, context, amounts, contract,
          gas, profit, decision, stats, total, approvals, approvePc, relayTxs,
          transactionsPopulated, log>>

\* The inputs of the run, which no step changes.
inputs == <<bot, params, numPairs>>
\* State only the swap loop writes.
swapOnly == <<i, amounts, stats, total>>

NoContext == [kind |-> "none"]
NoAmounts == [amountOut |-> 0, amountIn |-> 0, amountInMin |-> 0,
              maxAmountOut |-> 0, wantedAmountOut |-> 0, queried |-> FALSE,
              read |-> FALSE]
NoGas == [estimatedGasLimit |-> [failed |-> TRUE, units |-> 0], fees |-> NoFees]
NoProfit == [estimatedProfitUsd |-> 0, profitable |-> FALSE, computed |-> FALSE,
             rewardUsd |-> 0, costUsd |-> 0, netProfitUsd |-> 0,
             threshold |-> 0]
NoDecision == [decided |-> FALSE, profitable |-> FALSE, estimateFailed |-> FALSE,
               gasUnits |-> 0]

\* Opportunities of a cycle: the liquidation pairs of the swap bot; the
\* claim bot and the auction bot have the single opportunity 1.
Opportunities == 1 .. MaxPairs

Init ==
    /\ bot \in Bots
    /\ params \in [minProfitThresholdUsd : ThresholdValues,
                   useFlashbots : BOOLEAN,
                   chainSupportsPrivate : BOOLEAN,
                   numVaults : VaultCounts]
    /\ numPairs \in 0 .. MaxPairs
    /\ (bot # "swap" => numPairs = 0)
    /\ pc = "start"
    /\ outcome = "running"
    /\ i = 1
    /\ context = NoContext
    /\ amounts = NoAmounts
    /\ contract = "none"
    /\ gas = NoGas
    /\ profit = NoProfit
    /\ decision = [o \in Opportunities |-> NoDecision]
    /\ stats = <<>>
    /\ total = 0
    /\ approvals = <<>>
    /\ approvePc = "idle"
    /\ relayTxs = <<>>
    /\ transactionsPopulated = <<>>
    /\ log = <<>>

Logged(o, op) == \E k \in 1 .. Len(log) : log[k] = <<o, op>>

\* An approve call: "pending" once submitted, then "confirmed" or "failed";
\* "failed" at once when the submission itself rejects.
Approval(o, spender, ok) ==
    [opp |-> o, spender |-> spender, amount |-> MaxInt256,
     status |-> IF ok THEN "pending" ELSE "failed"]

\* What is kept of a decision: its answer and the gas estimate it was given.
Decided(r, estimate) ==
    [decided |-> TRUE, profitable |-> r.profitable,
     estimateFailed |-> estimate.failed, gasUnits |-> estimate.units]

\* ---------------------------------------------------------------- swap bot
\* The error of a Stat: its wording and the amount the wording quotes
\* (thousandths of a token); reason "" stands for an absent error.
ErrorMsg(reason, amount) == [reason |-> reason, amount |-> amount]

\* errorMsg of an insufficient balance: `balance insufficient by` the
\* difference amountIn - tokenInBalance, formatted in whole tokens and
\* rounded to two decimal places.
balanceErrorMsg(ctx, amountIn) ==
    ErrorMsg("balance insufficient",
             roundTwoDecimalPlaces(
                 FormatUnits(amountIn - ctx.tokenInBalance, ctx.tokenInDecimals)))

\* Mutant of Stat: the error is left out.
Stat_noError(pair, estimatedProfitUsd, txHash, error) ==
    [pair |-> pair, estimatedProfitUsd |-> estimatedProfitUsd,
     txHash |-> txHash, error |-> ErrorMsg("", 0)]

\* A Stat of the summary; txHash 0 stands for an absent field.
Stat(pair, estimatedProfitUsd, txHash, error) ==
    [pair |-> pair, estimatedProfitUsd |-> estimatedProfitUsd,
     txHash |-> txHash, error |-> error]

\* `continue` / the end of the loop body: the next pair, or the summary.
NextPairPc == IF i + 1 > numPairs THEN "summary" ELSE "getContext"

\* Mutant of calculateAmounts: no early return when maxAmountOut is 0.
calculateAmounts_noShortCircuit(maxAmountOut, exactAmountIn) ==
    [amountOut |-> maxAmountOut,
     amountIn |-> exactAmountIn,
     amountInMin |-> MaxInt256,
     maxAmountOut |-> maxAmountOut,
     wantedAmountOut |-> maxAmountOut \div divisor,
     queried |-> TRUE, read |-> TRUE]

\* calculateAmounts: exactAmountIn is the answer of computeExactAmountIn
\* for the wanted amount; it is asked only when maxAmountOut is not 0.
\* amountOut, amountIn and amountInMin are the returned tuple; the other
\* fields keep the locals (the amount read, wantedAmountOut, whether
\* computeExactAmountIn was called).
calculateAmounts(maxAmountOut, exactAmountIn) ==
    IF maxAmountOut = 0
    THEN [amountOut |-> 0, amountIn |-> 0, amountInMin |-> 0,
          maxAmountOut |-> maxAmountOut, wantedAmountOut |-> 0,
          queried |-> FALSE, read |-> TRUE]
    ELSE [amountOut |-> maxAmountOut,
          amountIn |-> exactAmountIn,
          amountInMin |-> MaxInt256,
          maxAmountOut |-> maxAmountOut,
          wantedAmountOut |-> maxAmountOut \div divisor,
          queried |-> TRUE, read |-> TRUE]

\* Mutant of checkBalance: a balance equal to the amount is sufficient.
checkBalance_notStrict(ctx, exactAmountIn) == ctx.tokenInBalance >= exactAmountIn

\* checkBalance: tokenInBalance.gt(exactAmountIn).
checkBalance(ctx, exactAmountIn) == ctx.tokenInBalance > exactAmountIn

\* approve: allowance.lt(amountIn) decides whether token.approve is called.
needsApproval(allowance, amountIn) == allowance < amountIn

swapExactAmountOutParams(pair, amts) ==
    [liquidationPairAddress |-> pair,
     swapRecipient |-> "swapRecipient",
     amountOut |-> amts.amountOut,
     amountInMin |-> amts.amountInMin]

\* Mutant of calculateProfit: the comparison with the threshold is not strict.
calculateProfit_notStrict(swapParams, estimate, fees, ctx, minProfitThresholdUsd, amountIn) ==
    IF estimate.failed
    THEN [estimatedProfitUsd |-> 0, profitable |-> FALSE, computed |-> FALSE,
          rewardUsd |-> 0, costUsd |-> 0, netProfitUsd |-> 0,
          threshold |-> minProfitThresholdUsd]
    ELSE LET grossProfitUsd ==
                 AmountUsd(swapParams.amountOut, ctx.tokenOutDecimals,
                           ctx.tokenOutAssetRateUsd)
                 - AmountUsd(amountIn, ctx.tokenInDecimals, ctx.tokenInAssetRateUsd)
             netProfitUsd == grossProfitUsd - fees.maxFeeUsd
         IN  [estimatedProfitUsd |-> roundTwoDecimalPlaces(netProfitUsd),
              profitable |-> netProfitUsd >= minProfitThresholdUsd,
              computed |-> TRUE,
              rewardUsd |-> grossProfitUsd,
              costUsd |-> fees.maxFeeUsd,
              netProfitUsd |-> netProfitUsd,
              threshold |-> minProfitThresholdUsd]

\* Mutant of calculateProfit: a failed gas estimation is taken as no cost.
calculateProfit_unknownGasFree(swapParams, estimate, fees, ctx, minProfitThresholdUsd, amountIn) ==
    LET grossProfitUsd ==
            AmountUsd(swapParams.amountOut, ctx.tokenOutDecimals,
                      ctx.tokenOutAssetRateUsd)
            - AmountUsd(amountIn, ctx.tokenInDecimals, ctx.tokenInAssetRateUsd)
        netProfitUsd == grossProfitUsd - fees.maxFeeUsd
    IN  [estimatedProfitUsd |-> roundTwoDecimalPlaces(netProfitUsd),
         profitable |-> netProfitUsd > minProfitThresholdUsd,
         computed |-> ~estimate.failed,
         rewardUsd |-> grossProfitUsd,
         costUsd |-> fees.maxFeeUsd,
         netProfitUsd |-> netProfitUsd,
         threshold |-> minProfitThresholdUsd]

\* calculateProfit of liquidatorArbitrageSwap.
calculateProfit(swapParams, estimate, fees, ctx, minProfitThresholdUsd, amountIn) ==
    IF estimate.failed
    THEN [estimatedProfitUsd |-> 0, profitable |-> FALSE, computed |-> FALSE,
          rewardUsd |-> 0, costUsd |-> 0, netProfitUsd |-> 0,
          threshold |-> minProfitThresholdUsd]
    ELSE LET tokenOutUnderlyingAssetUsd ==
                 AmountUsd(swapParams.amountOut, ctx.tokenOutDecimals,
                           ctx.tokenOutAssetRateUsd)
             tokenInUsd ==
                 AmountUsd(amountIn, ctx.tokenInDecimals, ctx.tokenInAssetRateUsd)
             grossProfitUsd == tokenOutUnderlyingAssetUsd - tokenInUsd
             netProfitUsd == grossProfitUsd - fees.maxFeeUsd
         IN  [estimatedProfitUsd |-> roundTwoDecimalPlaces(netProfitUsd),
              profitable |-> netProfitUsd > minProfitThresholdUsd,
              computed |-> TRUE,
              rewardUsd |-> grossProfitUsd,
              costUsd |-> fees.maxFeeUsd,
              netProfitUsd |-> netProfitUsd,
              threshold |-> minProfitThresholdUsd]

\* Mutant of swapProceeds: the `if (!profitable)` test is missing.
swapProceeds_always(profitable) == TRUE

\* if (!profitable) { ... continue; }: only a profitable pair goes on to #7.
swapProceeds(profitable) == profitable

RECURSIVE SumProfit(_)
SumProfit(s) ==
    IF s = <<>> THEN 0 ELSE Head(s).estimatedProfitUsd + SumProfit(Tail(s))

\* Mutant of SwapStart: an empty vault list is not tested.
SwapStart_noVaultCheck ==
    /\ bot = "swap" /\ pc = "start"
    /\ log' = Append(Append(log, <<0, "getLiquidationPairs">>),
                     <<0, "getSubgraphVaults">>)
    /\ outcome' = outcome
    /\ pc' = IF numPairs = 0 THEN "summary" ELSE "getContext"
    /\ UNCHANGED <<inputs, swapOnly, context, contract, gas, profit, decision,
                   approvals, approvePc, relayTxs, transactionsPopulated>>

\* #1: the contracts and the vaults; no vault is a fatal error.
SwapStart ==
    /\ bot = "swap" /\ pc = "start"
    /\ log' = Append(Append(log, <<0, "getLiquidationPairs">>),
                     <<0, "getSubgraphVaults">>)
    /\ IF params.numVaults = 0
       THEN /\ outcome' = "threw"
            /\ pc' = "done"
       ELSE /\ outcome' = outcome
            /\ pc' = IF numPairs = 0 THEN "summary" ELSE "getContext"
    /\ UNCHANGED <<inputs, swapOnly, context, contract, gas, profit, decision,
                   approvals, approvePc, relayTxs, transactionsPopulated>>

\* Mutant of SwapGetContext: the context read for the first pair is kept
\* for the later pairs of the cycle.
SwapGetContext_cached ==
    /\ bot = "swap" /\ pc = "getContext"
    /\ IF context.kind = "swap"
       THEN context' = context
       ELSE \E balance \in BalanceValues, allowance \in AllowanceValues,
               rateIn \in RateValues, rateOut \in RateValues :
               context' = [kind |-> "swap", pair |-> i,
                           tokenInDecimals |-> TokenInDecimals,
                           tokenOutDecimals |-> SwapTokenDecimals,
                           tokenInAssetRateUsd |-> rateIn,
                           tokenOutAssetRateUsd |-> rateOut,
                           tokenInBalance |-> balance,
                           tokenInAllowance |-> allowance]
    /\ log' = Append(log, <<i, "getContext">>)
    /\ pc' = "calculateAmounts"
    /\ amounts' = NoAmounts
    /\ gas' = NoGas
    /\ profit' = NoProfit
    /\ UNCHANGED <<inputs, outcome, i, stats, total, contract, decision,
                   approvals, approvePc, relayTxs, transactionsPopulated>>

\* getContext at the head of the loop body: a new snapshot for pair i.
SwapGetContext ==
    /\ bot = "swap" /\ pc = "getContext"
    /\ \E balance \in BalanceValues, allowance \in AllowanceValues,
          rateIn \in RateValues, rateOut \in RateValues :
          context' = [kind |-> "swap", pair |-> i,
                      tokenInDecimals |-> TokenInDecimals,
                      tokenOutDecimals |-> SwapTokenDecimals,
                      tokenInAssetRateUsd |-> rateIn,
                      tokenOutAssetRateUsd |-> rateOut,
                      tokenInBalance |-> balance,
                      tokenInAllowance |-> allowance]
    /\ log' = Append(log, <<i, "getContext">>)
    /\ pc' = "calculateAmounts"
    /\ amounts' = NoAmounts
    /\ gas' = NoGas
    /\ profit' = NoProfit
    /\ UNCHANGED <<inputs, outcome, i, stats, total, contract, decision,
                   approvals, approvePc, relayTxs, transactionsPopulated>>

\* The multicall of getContext rejects: nothing catches it.
SwapGetContextFails ==
    /\ bot = "swap" /\ pc = "getContext"
    /\ log' = Append(log, <<i, "getContext">>)
    /\ outcome' = "threw"
    /\ pc' = "done"
    /\ UNCHANGED <<inputs, swapOnly, context, contract, gas, profit, decision,
                   approvals, approvePc, relayTxs, transactionsPopulated>>

\* Mutant of SwapCalculateAmounts: the amount depends on the swaps already
\* sent in the cycle.
SwapCalculateAmounts_retained ==
    /\ bot = "swap" /\ pc = "calculateAmounts"
    /\ \E maxAmountOut \in MaxAmountOutValues, exactAmountIn \in AmountInValues :
          LET c == calculateAmounts(maxAmountOut, exactAmountIn)
              r == [c EXCEPT !.amountOut = c.amountOut + Len(relayTxs)]
          IN
          /\ amounts' = r
          /\ log' = IF r.queried
                    THEN Append(Append(log, <<i, "maxAmountOut">>),
                                <<i, "computeExactAmountIn">>)
                    ELSE Append(log, <<i, "maxAmountOut">>)
          /\ IF r.amountOut = 0
             THEN /\ stats' = Append(stats, Stat(i, 0, 0, ErrorMsg("amountOut is 0", 0)))
                  /\ pc' = NextPairPc
                  /\ i' = i + 1
             ELSE /\ pc' = "checkBalance"
                  /\ UNCHANGED <<stats, i>>
    /\ UNCHANGED <<inputs, outcome, total, context, contract, gas, profit,
                   decision, approvals, approvePc, relayTxs,
                   transactionsPopulated>>

\* #2: calculateAmounts and the amountOut.eq(0) test after it.
SwapCalculateAmounts ==
    /\ bot = "swap" /\ pc = "calculateAmounts"
    /\ \E maxAmountOut \in MaxAmountOutValues, exactAmountIn \in AmountInValues :
          LET r == calculateAmounts(maxAmountOut, exactAmountIn) IN
          /\ amounts' = r
          /\ log' = IF r.queried
                    THEN Append(Append(log, <<i, "maxAmountOut">>),
                                <<i, "computeExactAmountIn">>)
                    ELSE Append(log, <<i, "maxAmountOut">>)
          /\ IF r.amountOut = 0
             THEN /\ stats' = Append(stats, Stat(i, 0, 0, ErrorMsg("amountOut is 0", 0)))
                  /\ pc' = NextPairPc
                  /\ i' = i + 1
             ELSE /\ pc' = "checkBalance"
                  /\ UNCHANGED <<stats, i>>
    /\ UNCHANGED <<inputs, outcome, total, context, contract, gas, profit,
                   decision, approvals, approvePc, relayTxs,
                   transactionsPopulated>>

\* Mutant of SwapCheckBalance: a skipped pair leaves no outcome.
SwapCheckBalance_noStat ==
    /\ bot = "swap" /\ pc = "checkBalance"
    /\ log' = Append(log, <<i, "checkBalance">>)
    /\ IF checkBalance(context, amounts.amountIn)
       THEN /\ pc' = "approve"
            /\ UNCHANGED <<stats, i>>
       ELSE /\ stats' = stats
            /\ pc' = NextPairPc
            /\ i' = i + 1
    /\ UNCHANGED <<inputs, outcome, total, amounts, context, contract, gas,
                   profit, decision, approvals, approvePc, relayTxs,
                   transactionsPopulated>>

\* #3: checkBalance; an insufficient balance skips the pair.
SwapCheckBalance ==
    /\ bot = "swap" /\ pc = "checkBalance"
    /\ log' = Append(log, <<i, "checkBalance">>)
    /\ IF checkBalance(context, amounts.amountIn)
       THEN /\ pc' = "approve"
            /\ UNCHANGED <<stats, i>>
       ELSE /\ stats' = Append(stats, Stat(i, 0, 0, balanceErrorMsg(context, amounts.amountIn)))
            /\ pc' = NextPairPc
            /\ i' = i + 1
    /\ UNCHANGED <<inputs, outcome, total, amounts, context, contract, gas,
                   profit, decision, approvals, approvePc, relayTxs,
                   transactionsPopulated>>

\* Mutant of SwapApprove: the submitted approval is not waited for.
SwapApprove_notAwaited ==
    /\ bot = "swap" /\ pc = "approve"
    /\ IF context.tokenInAllowance < amounts.amountIn
       THEN \E ok \in BOOLEAN :
              /\ approvals' = Append(approvals, Approval(i, "LiquidationRouter", ok))
              /\ log' = Append(log, <<i, "approve">>)
              /\ pc' = "calculateProfit"
       ELSE /\ pc' = "calculateProfit"
            /\ UNCHANGED <<approvals, log>>
    /\ UNCHANGED <<inputs, swapOnly, outcome, context, contract, gas, profit,
                   decision, approvePc, relayTxs, transactionsPopulated>>

\* #4: approve(): token.approve is called when the allowance is too small;
\* a rejection is caught and logged inside approve().
SwapApprove ==
    /\ bot = "swap" /\ pc = "approve"
    /\ IF needsApproval(context.tokenInAllowance, amounts.amountIn)
       THEN \E ok \in BOOLEAN :
              /\ approvals' = Append(approvals, Approval(i, "LiquidationRouter", ok))
              /\ log' = Append(log, <<i, "approve">>)
              /\ pc' = IF ok THEN "approveWait" ELSE "calculateProfit"
       ELSE /\ pc' = "calculateProfit"
            /\ UNCHANGED <<approvals, log>>
    /\ UNCHANGED <<inputs, swapOnly, outcome, context, contract, gas, profit,
                   decision, approvePc, relayTxs, transactionsPopulated>>

\* await tx.wait(): the approval confirms, or fails and is caught.
SwapApproveWait ==
    /\ bot = "swap" /\ pc = "approveWait"
    /\ \E ok \in BOOLEAN :
          approvals' = [approvals EXCEPT ![Len(approvals)].status =
                           IF ok THEN "confirmed" ELSE "failed"]
    /\ pc' = "calculateProfit"
    /\ UNCHANGED <<inputs, swapOnly, outcome, context, contract, gas, profit,
                   decision, approvePc, relayTxs, transactionsPopulated, log>>

\* #5, #6: calculateProfit and the `if (!profitable)` test after it.
SwapCalculateProfit ==
    /\ bot = "swap" /\ pc = "calculateProfit"
    /\ \E nativeRate \in RateValues, estimate \in SwapGasValues,
          feeData \in FeeDataValues :
          LET fees == IF ~estimate.failed
                      THEN getFeesUsd(estimate.units, nativeRate, feeData)
                      ELSE NoFees
              r == calculateProfit(swapExactAmountOutParams(i, amounts), estimate,
                                   fees, context, params.minProfitThresholdUsd,
                                   amounts.amountIn)
          IN
          /\ gas' = [estimatedGasLimit |-> estimate, fees |-> fees]
          /\ profit' = r
          /\ decision' = [decision EXCEPT ![i] = Decided(r, estimate)]
          /\ IF swapProceeds(r.profitable)
             THEN /\ pc' = "send"
                  /\ UNCHANGED <<stats, i>>
             ELSE /\ stats' = Append(stats, Stat(i, 0, 0, ErrorMsg("Not profitable", 0)))
                  /\ pc' = NextPairPc
                  /\ i' = i + 1
    /\ log' = Append(log, <<i, "estimateGas">>)
    /\ UNCHANGED <<inputs, outcome, total, amounts, context, contract,
                   approvals, approvePc, relayTxs, transactionsPopulated>>

\* Mutant of SwapSend: a rejected submission is tried again.
SwapSend_retry ==
    /\ bot = "swap" /\ pc = "send"
    /\ \E ok \in BOOLEAN :
          IF ok
          THEN /\ relayTxs' = Append(relayTxs,
                      [kind |-> "swapExactAmountOut", opp |-> i,
                       to |-> "LiquidationRouter",
                       args |-> swapExactAmountOutParams(i, amounts),
                       isPrivate |-> canUseIsPrivate(params.chainSupportsPrivate,
                                                     params.useFlashbots),
                       gasLimit |-> SwapGasLimit])
               /\ stats' = Append(stats,
                      Stat(i, profit.estimatedProfitUsd, Len(relayTxs) + 1,
                           ErrorMsg("", 0)))
               /\ log' = Append(log, <<i, "relay">>)
               /\ pc' = NextPairPc
               /\ i' = i + 1
               /\ outcome' = outcome
          ELSE /\ ~Logged(i, "relayFailed")
               /\ log' = Append(log, <<i, "relayFailed">>)
               /\ UNCHANGED <<stats, outcome, pc, relayTxs, i>>
    /\ UNCHANGED <<inputs, total, amounts, context, contract, gas, profit,
                   decision, approvals, approvePc, transactionsPopulated>>

\* #7: populate swapExactAmountOut and hand it to the relay; a rejection is
\* recorded in stats and thrown again.
SwapSend ==
    /\ bot = "swap" /\ pc = "send"
    /\ \E ok \in BOOLEAN :
          IF ok
          THEN /\ relayTxs' = Append(relayTxs,
                      [kind |-> "swapExactAmountOut", opp |-> i,
                       to |-> "LiquidationRouter",
                       args |-> swapExactAmountOutParams(i, amounts),
                       isPrivate |-> canUseIsPrivate(params.chainSupportsPrivate,
                                                     params.useFlashbots),
                       gasLimit |-> SwapGasLimit])
               /\ stats' = Append(stats,
                      Stat(i, profit.estimatedProfitUsd, Len(relayTxs) + 1,
                           ErrorMsg("", 0)))
               /\ log' = Append(log, <<i, "relay">>)
               /\ pc' = NextPairPc
               /\ i' = i + 1
               /\ outcome' = outcome
          ELSE /\ stats' = Append(stats, Stat(i, 0, 0, ErrorMsg("send failed", 0)))
               /\ log' = Append(log, <<i, "relayFailed">>)
               /\ outcome' = "threw"
               /\ pc' = "done"
               /\ UNCHANGED <<relayTxs, i>>
    /\ UNCHANGED <<inputs, total, amounts, context, contract, gas, profit,
                   decision, approvals, approvePc, transactionsPopulated>>

\* The summary after the loop.
SwapSummary ==
    /\ bot = "swap" /\ pc = "summary"
    /\ total' = roundTwoDecimalPlaces(SumProfit(stats))
    /\ outcome' = "returned"
    /\ pc' = "done"
    /\ UNCHANGED <<inputs, i, amounts, stats, context, contract, gas, profit,
                   decision, approvals, approvePc, relayTxs,
                   transactionsPopulated, log>>

\* ------------------------------------------------------------- auction bot
\* Mutant of determineContractToUse: the Draw stage takes precedence.
determineContractToUse_drawFirst(ctx) ==
    IF ctx.drawIsAuctionOpen THEN "DrawAuction" ELSE "RNGAuction"

\* determineContractToUse: the RNG stage when its auction is open.
determineContractToUse(ctx) ==
    IF ctx.rngIsAuctionOpen THEN "RNGAuction" ELSE "DrawAuction"

\* The contract whose populateTransaction.completeAuction sendTransaction uses.
sendTransactionContract(selected) == "RNGAuction"

\* Mutant of callsApprove: the balance and the allowance are always looked at.
callsApprove_always(ctx) == TRUE

\* optionallyIncreaseRngFeeAllowance calls approve() only for an open RNG
\* auction with a fee, and never awaits it.
callsApprove(ctx) == ctx.rngIsAuctionOpen /\ ctx.rngFeeAmount > 0

\* Mutant of rngNeedsApproval: an allowance equal to the fee is raised too.
rngNeedsApproval_notStrict(ctx) == ctx.rngFeeTokenAllowance <= ctx.rngFeeAmount

\* optionallyIncreaseRngFeeAllowance: rngFeeTokenBalance.lt(rngFeeAmount)
\* decides whether the shortfall warning is printed.
rngFeeBalanceShort(ctx) == ctx.rngFeeTokenBalance < ctx.rngFeeAmount

\* The log after the context read: the read, and the shortfall warning of
\* optionallyIncreaseRngFeeAllowance if it is printed.
ContextLog(l, ctx) ==
    IF callsApprove(ctx) /\ rngFeeBalanceShort(ctx)
    THEN Append(Append(l, <<1, "getContext">>), <<1, "balanceWarning">>)
    ELSE Append(l, <<1, "getContext">>)

\* approve() of drawAuction.ts: allowance.lt(context.rngFeeAmount).
rngNeedsApproval(ctx) == ctx.rngFeeTokenAllowance < ctx.rngFeeAmount

\* #5: the reward of the selected contract.
auctionRewardUsd(selected, ctx) ==
    IF selected = "RNGAuction"
    THEN ctx.rngExpectedRewardUsd
    ELSE ctx.drawExpectedRewardUsd

\* Mutant of auctionCalculateProfit: the rounded net profit is compared.
auctionCalculateProfit_rounded(minProfitThresholdUsd, rewardUsd, totalCostUsd) ==
    LET netProfitUsd == rewardUsd - totalCostUsd
    IN  [estimatedProfitUsd |-> roundTwoDecimalPlaces(netProfitUsd),
         profitable |-> roundTwoDecimalPlaces(netProfitUsd) > minProfitThresholdUsd,
         computed |-> TRUE,
         rewardUsd |-> rewardUsd,
         costUsd |-> totalCostUsd,
         netProfitUsd |-> netProfitUsd,
         threshold |-> minProfitThresholdUsd]

\* calculateProfit of drawAuction.ts.
auctionCalculateProfit(minProfitThresholdUsd, rewardUsd, totalCostUsd) ==
    LET netProfitUsd == rewardUsd - totalCostUsd
    IN  [estimatedProfitUsd |-> roundTwoDecimalPlaces(netProfitUsd),
         profitable |-> netProfitUsd > minProfitThresholdUsd,
         computed |-> TRUE,
         rewardUsd |-> rewardUsd,
         costUsd |-> totalCostUsd,
         netProfitUsd |-> netProfitUsd,
         threshold |-> minProfitThresholdUsd]

\* Mutant of auctionProceeds: the transaction is sent whatever the decision.
auctionProceeds_always(profitable) == TRUE

\* if (profitable) { sendTransaction ... }
auctionProceeds(profitable) == profitable

\* Mutant of noAuctionOpen: the cycle never exits after the context read.
noAuctionOpen_never(ctx) == FALSE

\* if (!context.rngIsAuctionOpen && !context.drawIsAuctionOpen) return;
noAuctionOpen(ctx) == ~ctx.rngIsAuctionOpen /\ ~ctx.drawIsAuctionOpen

\* Mutant of AuctionStart: the contracts are not tested.
AuctionStart_unchecked ==
    /\ bot = "auction" /\ pc = "start"
    /\ \E available \in BOOLEAN :
          /\ pc' = "getContext"
          /\ outcome' = outcome
          /\ log' = IF available THEN log
                    ELSE Append(log, <<0, "contractMissing">>)
    /\ UNCHANGED <<inputs, swapOnly, context, contract, gas, profit, decision,
                   approvals, approvePc, relayTxs, transactionsPopulated>>

\* getAuctionContracts: a missing PrizePool, RNGAuction or DrawAuction
\* contract is fatal.
AuctionStart ==
    /\ bot = "auction" /\ pc = "start"
    /\ \E available \in BOOLEAN :
          IF available
          THEN /\ pc' = "getContext"
               /\ outcome' = outcome
               /\ log' = log
          ELSE /\ pc' = "done"
               /\ outcome' = "threw"
               /\ log' = Append(log, <<0, "contractMissing">>)
    /\ UNCHANGED <<inputs, swapOnly, context, contract, gas, profit, decision,
                   approvals, approvePc, relayTxs, transactionsPopulated>>

\* #1 - #3: the context multicall, the exit when no auction is open,
\* determineContractToUse and optionallyIncreaseRngFeeAllowance, which runs
\* up to the token.approve call of the approve() it does not await.
AuctionGetContext ==
    /\ bot = "auction" /\ pc = "getContext"
    /\ \E rngOpen \in BOOLEAN, drawOpen \in BOOLEAN,
          fee \in RngFeeAmountValues, balance \in RngFeeBalanceValues,
          allowance \in RngFeeAllowanceValues,
          rngReward \in RngRewardUsdValues, drawReward \in DrawRewardUsdValues,
          nativeRate \in RateValues :
          LET ctx == [kind |-> "auction",
                      rngIsAuctionOpen |-> rngOpen,
                      drawIsAuctionOpen |-> drawOpen,
                      rngFeeAmount |-> fee,
                      rngFeeTokenBalance |-> balance,
                      rngFeeTokenAllowance |-> allowance,
                      rngExpectedRewardUsd |-> rngReward,
                      drawExpectedRewardUsd |-> drawReward,
                      nativeTokenMarketRateUsd |-> nativeRate]
          IN
          /\ context' = ctx
          /\ IF noAuctionOpen(ctx)
             THEN /\ pc' = "done"
                  /\ outcome' = "returned"
                  /\ log' = Append(log, <<1, "getContext">>)
                  /\ UNCHANGED <<contract, approvals, approvePc>>
             ELSE /\ contract' = determineContractToUse(ctx)
                  /\ pc' = "getGasCost"
                  /\ outcome' = outcome
                  /\ IF callsApprove(ctx) /\ rngNeedsApproval(ctx)
                     THEN /\ approvals' = Append(approvals,
                                 [opp |-> 1, spender |-> "rngFeeToken",
                                  amount |-> MaxInt256, status |-> "requested"])
                          /\ approvePc' = "submit"
                          /\ log' = Append(ContextLog(log, ctx), <<1, "approve">>)
                     ELSE /\ log' = ContextLog(log, ctx)
                          /\ UNCHANGED <<approvals, approvePc>>
    /\ UNCHANGED <<inputs, swapOnly, gas, profit, decision, relayTxs,
                   transactionsPopulated>>

\* The context multicall rejects: nothing catches it.
AuctionGetContextFails ==
    /\ bot = "auction" /\ pc = "getContext"
    /\ log' = Append(log, <<1, "getContext">>)
    /\ outcome' = "threw"
    /\ pc' = "done"
    /\ UNCHANGED <<inputs, swapOnly, context, contract, gas, profit, decision,
                   approvals, approvePc, relayTxs, transactionsPopulated>>

\* approve(), running on its own: token.approve resolves with the submitted
\* transaction, or rejects (caught and logged inside approve()).
AuctionApproveSubmit ==
    /\ bot = "auction" /\ approvePc = "submit"
    /\ \E ok \in BOOLEAN :
          /\ approvals' = [approvals EXCEPT ![Len(approvals)].status =
                              IF ok THEN "pending" ELSE "failed"]
          /\ approvePc' = IF ok THEN "wait" ELSE "done"
    /\ UNCHANGED <<inputs, swapOnly, pc, outcome, context, contract, gas,
                   profit, decision, relayTxs, transactionsPopulated, log>>

\* approve(), running on its own: tx.wait() resolves or rejects (caught).
AuctionApproveWait ==
    /\ bot = "auction" /\ approvePc = "wait"
    /\ \E ok \in BOOLEAN :
          approvals' = [approvals EXCEPT ![Len(approvals)].status =
                           IF ok THEN "confirmed" ELSE "failed"]
    /\ approvePc' = "done"
    /\ UNCHANGED <<inputs, swapOnly, pc, outcome, context, contract, gas,
                   profit, decision, relayTxs, transactionsPopulated, log>>

\* #4: getGasCost.  getEstimatedGasLimit catches a rejected estimateGas and
\* returns undefined; what getFeesUsd makes of undefined is not fixed by the
\* sources at hand: it throws, or it yields the fees of zero gas.
AuctionGetGasCost ==
    /\ bot = "auction" /\ pc = "getGasCost"
    /\ log' = Append(log, <<1, "estimateGas">>)
    /\ \E estimate \in GasValues, feeData \in FeeDataValues, throws \in BOOLEAN :
          IF estimate.failed /\ throws
          THEN /\ outcome' = "threw"
               /\ pc' = "done"
               /\ gas' = [estimatedGasLimit |-> estimate, fees |-> NoFees]
          ELSE /\ gas' = [estimatedGasLimit |-> estimate,
                          fees |-> getFeesUsd(estimate.units,
                                              context.nativeTokenMarketRateUsd,
                                              feeData)]
               /\ pc' = "calculateProfit"
               /\ outcome' = outcome
    /\ UNCHANGED <<inputs, swapOnly, context, contract, profit, decision,
                   approvals, approvePc, relayTxs, transactionsPopulated>>

\* #5 - #7: the reward, calculateProfit and the `if (profitable)` test.
AuctionCalculateProfit ==
    /\ bot = "auction" /\ pc = "calculateProfit"
    /\ LET r == auctionCalculateProfit(params.minProfitThresholdUsd,
                                       auctionRewardUsd(contract, context),
                                       gas.fees.maxFeeUsd)
       IN  /\ profit' = r
           /\ decision' = [decision EXCEPT ![1] = Decided(r, gas.estimatedGasLimit)]
           /\ IF auctionProceeds(r.profitable)
              THEN /\ pc' = "sendTransaction"
                   /\ outcome' = outcome
              ELSE /\ pc' = "done"
                   /\ outcome' = "returned"
    /\ UNCHANGED <<inputs, swapOnly, context, contract, gas, approvals,
                   approvePc, relayTxs, transactionsPopulated, log>>

\* Mutant of AuctionSendTransaction: the private flag is the operator flag
\* alone, without the chain's capability.
AuctionSendTransaction_privateUnchecked ==
    /\ bot = "auction" /\ pc = "sendTransaction"
    /\ \E ok \in BOOLEAN :
          IF ok
          THEN /\ relayTxs' = Append(relayTxs,
                      [kind |-> "completeAuction", opp |-> 1,
                       to |-> sendTransactionContract(contract),
                       args |-> [rewardRecipient |-> "rewardRecipient"],
                       isPrivate |-> params.useFlashbots,
                       gasLimit |-> AuctionGasLimit,
                       confirmed |-> FALSE])
               /\ log' = Append(log, <<1, "relay">>)
               /\ pc' = "waitForTransaction"
               /\ outcome' = outcome
          ELSE /\ log' = Append(log, <<1, "relayFailed">>)
               /\ pc' = "done"
               /\ outcome' = "threw"
               /\ UNCHANGED relayTxs
    /\ UNCHANGED <<inputs, swapOnly, context, contract, gas, profit, decision,
                   approvals, approvePc, transactionsPopulated>>

\* sendTransaction: populate completeAuction and hand it to the relay.
AuctionSendTransaction ==
    /\ bot = "auction" /\ pc = "sendTransaction"
    /\ \E ok \in BOOLEAN :
          IF ok
          THEN /\ relayTxs' = Append(relayTxs,
                      [kind |-> "completeAuction", opp |-> 1,
                       to |-> sendTransactionContract(contract),
                       args |-> [rewardRecipient |-> "rewardRecipient"],
                       isPrivate |-> canUseIsPrivate(params.chainSupportsPrivate,
                                                     params.useFlashbots),
                       gasLimit |-> AuctionGasLimit,
                       confirmed |-> FALSE])
               /\ log' = Append(log, <<1, "relay">>)
               /\ pc' = "waitForTransaction"
               /\ outcome' = outcome
          ELSE /\ log' = Append(log, <<1, "relayFailed">>)
               /\ pc' = "done"
               /\ outcome' = "threw"
               /\ UNCHANGED relayTxs
    /\ UNCHANGED <<inputs, swapOnly, context, contract, gas, profit, decision,
                   approvals, approvePc, transactionsPopulated>>

\* The network confirms the relayed transaction while the bot waits for it.
\* The hash of a relayed transaction is its position in relayTxs.
AuctionTransactionConfirms ==
    /\ bot = "auction" /\ pc = "waitForTransaction"
    /\ ~relayTxs[Len(relayTxs)].confirmed
    /\ relayTxs' = [relayTxs EXCEPT ![Len(relayTxs)].confirmed = TRUE]
    /\ UNCHANGED <<inputs, swapOnly, pc, outcome, context, contract, gas,
                   profit, decision, approvals, approvePc,
                   transactionsPopulated, log>>

\* Mutant of AuctionWaitForTransaction: the wait ends before the
\* confirmation.
AuctionWaitForTransaction_unconfirmed ==
    /\ bot = "auction" /\ pc = "waitForTransaction"
    /\ log' = Append(log, <<Len(relayTxs), "waitResolved">>)
    /\ outcome' = "returned"
    /\ pc' = "done"
    /\ UNCHANGED <<inputs, swapOnly, context, contract, gas, profit, decision,
                   approvals, approvePc, relayTxs, transactionsPopulated>>

\* await readProvider.waitForTransaction(tx.hash) resolves: the transaction
\* with the hash sendTransaction returned is confirmed.
AuctionWaitForTransaction ==
    /\ bot = "auction" /\ pc = "waitForTransaction"
    /\ relayTxs[Len(relayTxs)].confirmed
    /\ log' = Append(log, <<Len(relayTxs), "waitResolved">>)
    /\ outcome' = "returned"
    /\ pc' = "done"
    /\ UNCHANGED <<inputs, swapOnly, context, contract, gas, profit, decision,
                   approvals, approvePc, relayTxs, transactionsPopulated>>

\* Mutant of AuctionWaitForTransactionFails: the rejection is caught.
AuctionWaitForTransactionFails_swallowed ==
    /\ bot = "auction" /\ pc = "waitForTransaction"
    /\ log' = Append(log, <<Len(relayTxs), "waitFailed">>)
    /\ outcome' = "returned"
    /\ pc' = "done"
    /\ UNCHANGED <<inputs, swapOnly, context, contract, gas, profit, decision,
                   approvals, approvePc, relayTxs, transactionsPopulated>>

\* await readProvider.waitForTransaction(tx.hash) rejects: nothing catches
\* it.
AuctionWaitForTransactionFails ==
    /\ bot = "auction" /\ pc = "waitForTransaction"
    /\ log' = Append(log, <<Len(relayTxs), "waitFailed">>)
    /\ outcome' = "threw"
    /\ pc' = "done"
    /\ UNCHANGED <<inputs, swapOnly, context, contract, gas, profit, decision,
                   approvals, approvePc, relayTxs, transactionsPopulated>>

\* --------------------------------------------------------------- claim bot
\* Mutant of claimPrizesParams: only the first winner is claimed for.
claimPrizesParams_filtered(ctx) ==
    [drawId |-> ctx.drawId,
     claims |-> IF ctx.claims = <<>> THEN <<>> ELSE <<Head(ctx.claims)>>,
     feeRecipient |-> "feeRecipient"]

\* claimPrizesParams: the draw of the context, all the winners read and the
\* configured fee recipient.
claimPrizesParams(ctx) ==
    [drawId |-> ctx.drawId, claims |-> ctx.claims, feeRecipient |-> "feeRecipient"]

\* Mutant of claimCalculateProfit: the cost is the maximum-fee estimate.
claimCalculateProfit_maxFee(estimate, fees, simulation, ctx) ==
    LET totalFees == IF simulation.ok THEN simulation.totalFees ELSE 0
        totalFeesUsd == AmountUsd(totalFees, ctx.feeTokenDecimals, ctx.feeTokenRateUsd)
        netProfitUsd == totalFeesUsd - fees.maxFeeUsd
    IN  [estimatedProfitUsd |-> roundTwoDecimalPlaces(netProfitUsd),
         profitable |-> netProfitUsd > MIN_PROFIT_THRESHOLD_USD * UsdUnit,
         computed |-> TRUE,
         rewardUsd |-> totalFeesUsd,
         costUsd |-> fees.maxFeeUsd,
         netProfitUsd |-> netProfitUsd,
         threshold |-> MIN_PROFIT_THRESHOLD_USD * UsdUnit]

\* calculateProfit of claimerProfitablePrizeTxs.ts; simulation is the result
\* of callStatic.claimPrizes, whose rejection leaves totalFees at 0.
claimCalculateProfit(estimate, fees, simulation, ctx) ==
    LET totalFees == IF simulation.ok THEN simulation.totalFees ELSE 0
        totalFeesUsd == AmountUsd(totalFees, ctx.feeTokenDecimals, ctx.feeTokenRateUsd)
        netProfitUsd == totalFeesUsd - fees.avgFeeUsd
    IN  [estimatedProfitUsd |-> roundTwoDecimalPlaces(netProfitUsd),
         profitable |-> netProfitUsd > MIN_PROFIT_THRESHOLD_USD * UsdUnit,
         computed |-> TRUE,
         rewardUsd |-> totalFeesUsd,
         costUsd |-> fees.avgFeeUsd,
         netProfitUsd |-> netProfitUsd,
         threshold |-> MIN_PROFIT_THRESHOLD_USD * UsdUnit]

\* if (profitable) { populateTransaction.claimPrizes ... }
claimProceeds(profitable) == profitable

\* Up to #3: the contracts, the context, the vaults and the winners.  A
\* missing Claimer contract and an empty vault list are fatal.
ClaimStart ==
    /\ bot = "claim" /\ pc = "start"
    /\ \E available \in BOOLEAN, claims \in ClaimsValues, rate \in RateValues :
          IF ~available
          THEN /\ pc' = "done"
               /\ outcome' = "threw"
               /\ log' = Append(log, <<0, "contractMissing">>)
               /\ UNCHANGED context
          ELSE /\ context' = [kind |-> "claim", drawId |-> 1,
                              feeTokenDecimals |-> FeeTokenDecimals,
                              feeTokenRateUsd |-> rate,
                              claims |-> IF params.numVaults = 0 THEN <<>> ELSE claims]
               /\ IF params.numVaults = 0
                  THEN /\ pc' = "done"
                       /\ outcome' = "threw"
                       /\ log' = Append(Append(log, <<1, "getContext">>),
                                        <<0, "getSubgraphVaults">>)
                  ELSE /\ pc' = "calculateProfit"
                       /\ outcome' = outcome
                       /\ log' = Append(Append(Append(log, <<1, "getContext">>),
                                               <<0, "getSubgraphVaults">>),
                                        <<1, "getWinners">>)
    /\ UNCHANGED <<inputs, swapOnly, contract, gas, profit, decision, approvals,
                   approvePc, relayTxs, transactionsPopulated>>

\* The log after callStatic.claimPrizes: the call, and its revert if any.
SimulationLog(l, simulation) ==
    IF simulation.ok
    THEN Append(l, <<1, "callStatic">>)
    ELSE Append(Append(l, <<1, "callStatic">>), <<1, "callStaticReverted">>)

\* Mutant of ClaimCalculateProfit: a reverting callStatic.claimPrizes is not
\* caught and rejects calculateProfit.
ClaimCalculateProfit_revertThrows ==
    /\ bot = "claim" /\ pc = "calculateProfit"
    /\ \E ethRate \in RateValues, estimate \in GasValues,
          feeData \in FeeDataValues, simulation \in TotalFeesValues,
          throws \in BOOLEAN :
          IF estimate.failed /\ throws
          THEN /\ gas' = [estimatedGasLimit |-> estimate, fees |-> NoFees]
               /\ log' = Append(log, <<1, "estimateGas">>)
               /\ pc' = "done"
               /\ outcome' = "threw"
               /\ UNCHANGED <<profit, decision>>
          ELSE LET fees == getFeesUsd(estimate.units, ethRate, feeData)
                   r == claimCalculateProfit(estimate, fees, simulation, context)
               IN  /\ gas' = [estimatedGasLimit |-> estimate, fees |-> fees]
                   /\ log' = SimulationLog(Append(log, <<1, "estimateGas">>),
                                            simulation)
                   /\ IF ~simulation.ok
                      THEN /\ pc' = "done"
                           /\ outcome' = "threw"
                           /\ UNCHANGED <<profit, decision>>
                      ELSE /\ profit' = r
                           /\ decision' = [decision EXCEPT ![1] = Decided(r, estimate)]
                           /\ IF claimProceeds(r.profitable)
                              THEN /\ pc' = "populate"
                                   /\ outcome' = outcome
                              ELSE /\ pc' = "done"
                                   /\ outcome' = "returned"
    /\ UNCHANGED <<inputs, swapOnly, context, contract, approvals, approvePc,
                   relayTxs, transactionsPopulated>>

\* #5: calculateProfit and the `if (profitable)` test.  As in the auction
\* bot, getFeesUsd of an undefined gas limit throws or yields the fees of
\* zero gas.
ClaimCalculateProfit ==
    /\ bot = "claim" /\ pc = "calculateProfit"
    /\ \E ethRate \in RateValues, estimate \in GasValues,
          feeData \in FeeDataValues, simulation \in TotalFeesValues,
          throws \in BOOLEAN :
          IF estimate.failed /\ throws
          THEN /\ gas' = [estimatedGasLimit |-> estimate, fees |-> NoFees]
               /\ log' = Append(log, <<1, "estimateGas">>)
               /\ pc' = "done"
               /\ outcome' = "threw"
               /\ UNCHANGED <<profit, decision>>
          ELSE LET fees == getFeesUsd(estimate.units, ethRate, feeData)
                   r == claimCalculateProfit(estimate, fees, simulation, context)
               IN  /\ gas' = [estimatedGasLimit |-> estimate, fees |-> fees]
                   /\ log' = SimulationLog(Append(log, <<1, "estimateGas">>),
                                            simulation)
                   /\ profit' = r
                   /\ decision' = [decision EXCEPT ![1] = Decided(r, estimate)]
                   /\ IF claimProceeds(r.profitable)
                      THEN /\ pc' = "populate"
                           /\ outcome' = outcome
                      ELSE /\ pc' = "done"
                           /\ outcome' = "returned"
    /\ UNCHANGED <<inputs, swapOnly, context, contract, approvals, approvePc,
                   relayTxs, transactionsPopulated>>

\* Mutant of ClaimPopulate: the populated transaction is also relayed.
ClaimPopulate_relayed ==
    /\ bot = "claim" /\ pc = "populate"
    /\ \E ok \in BOOLEAN :
          IF ok
          THEN /\ transactionsPopulated' = Append(transactionsPopulated,
                      [kind |-> "claimPrizes", opp |-> 1, to |-> "Claimer",
                       args |-> claimPrizesParams(context)])
               /\ relayTxs' = Append(relayTxs,
                      [kind |-> "claimPrizes", opp |-> 1, to |-> "Claimer",
                       args |-> claimPrizesParams(context),
                       isPrivate |-> FALSE, gasLimit |-> 0])
               /\ outcome' = "returned"
          ELSE /\ outcome' = "threw"
               /\ UNCHANGED <<transactionsPopulated, relayTxs>>
    /\ pc' = "done"
    /\ UNCHANGED <<inputs, swapOnly, context, contract, gas, profit, decision,
                   approvals, approvePc, log>>

\* claimer.populateTransaction.claimPrizes, pushed onto the returned list.
ClaimPopulate ==
    /\ bot = "claim" /\ pc = "populate"
    /\ \E ok \in BOOLEAN :
          IF ok
          THEN /\ transactionsPopulated' = Append(transactionsPopulated,
                      [kind |-> "claimPrizes", opp |-> 1, to |-> "Claimer",
                       args |-> claimPrizesParams(context)])
               /\ outcome' = "returned"
          ELSE /\ outcome' = "threw"
               /\ UNCHANGED transactionsPopulated
    /\ pc' = "done"
    /\ UNCHANGED <<inputs, swapOnly, context, contract, gas, profit, decision,
                   approvals, approvePc, relayTxs, log>>

\* -------------------------------------------------------------------- spec
Next ==
    \/ SwapStart \/ SwapGetContext \/ SwapGetContextFails \/ SwapCalculateAmounts
    \/ SwapCheckBalance \/ SwapApprove \/ SwapApproveWait \/ SwapCalculateProfit
    \/ SwapSend \/ SwapSummary
    \/ AuctionStart \/ AuctionGetContext \/ AuctionGetContextFails
    \/ AuctionApproveSubmit \/ AuctionApproveWait \/ AuctionGetGasCost
    \/ AuctionCalculateProfit \/ AuctionSendTransaction
    \/ AuctionTransactionConfirms \/ AuctionWaitForTransaction
    \/ AuctionWaitForTransactionFails
    \/ ClaimStart \/ ClaimCalculateProfit \/ ClaimPopulate

Spec == Init /\ [][Next]_vars

\* The auction bot alone.  A wait that can resolve does resolve: the
\* provider keeps polling for the receipt until it has it.
InitAuction == Init /\ bot = "auction"

NextAuction ==
    \/ AuctionStart \/ AuctionGetContext \/ AuctionGetContextFails
    \/ AuctionApproveSubmit \/ AuctionApproveWait \/ AuctionGetGasCost
    \/ AuctionCalculateProfit \/ AuctionSendTransaction
    \/ AuctionTransactionConfirms \/ AuctionWaitForTransaction
    \/ AuctionWaitForTransactionFails

SpecAuctionFair ==
    InitAuction /\ [][NextAuction]_vars /\ WF_vars(AuctionWaitForTransaction)

\* getFeesUsd on its own: one call with any gas limit, market rate and fee
\* data, the fee data not being bound to base <= max.  The inputs of the
\* call are kept in context, its result in gas.
FeesGasLimitValues == {0, 100, 200}
FeesRateValues == {UsdUnit, 2 * UsdUnit}
FeesPerGasValues == {250, 500, 1000}

InitFees == Init /\ bot = "claim"

GetFeesUsdCall ==
    /\ pc = "start"
    /\ \E estimatedGasLimit \in FeesGasLimitValues, rate \in FeesRateValues,
          feeData \in [lastBaseFeePerGas : FeesPerGasValues,
                       maxFeePerGas : FeesPerGasValues] :
          /\ context' = [kind |-> "fees",
                         estimatedGasLimit |-> estimatedGasLimit,
                         nativeTokenMarketRateUsd |-> rate,
                         feeData |-> feeData]
          /\ gas' = [estimatedGasLimit |-> [failed |-> FALSE,
                                            units |-> estimatedGasLimit],
                     fees |-> getFeesUsd(estimatedGasLimit, rate, feeData)]
    /\ pc' = "done"
    /\ outcome' = "returned"
    /\ UNCHANGED <<inputs, swapOnly, contract, profit, decision, approvals,
                   approvePc, relayTxs, transactionsPopulated, log>>

NextFees == GetFeesUsdCall

SpecFees == InitFees /\ [][NextFees]_vars

\* -------------------------------------- legacy liquidatorHandleArbSwap
\* gasLimit of the relayed swapExactAmountIn.
LegacyGasLimit == 800000
\* computeExactAmountOut(exactAmountIn) and balanceOf(relayerAddress).
AmountOutMinValues == {185}
LegacyBalanceValues == {80000, 200000}

NoLegacyAmounts ==
    [exactAmountIn |-> 0, amountOutMin |-> 0, tokenInAssetRateUsd |-> 0,
     tokenOutAssetRateUsd |-> 0, read |-> FALSE]

InitLegacy ==
    /\ bot = "legacy"
    /\ params = [minProfitThresholdUsd |-> MIN_PROFIT_THRESHOLD_USD * UsdUnit,
                 useFlashbots |-> FALSE,
                 chainSupportsPrivate |-> FALSE,
                 numVaults |-> 1]
    /\ numPairs \in 0 .. MaxPairs
    /\ pc = "start"
    /\ outcome = "running"
    /\ i = 1
    /\ context = NoContext
    /\ amounts = NoLegacyAmounts
    /\ contract = "none"
    /\ gas = NoGas
    /\ profit = NoProfit
    /\ decision = [o \in Opportunities |-> NoDecision]
    /\ stats = <<>>
    /\ total = 0
    /\ approvals = <<>>
    /\ approvePc = "idle"
    /\ relayTxs = <<>>
    /\ transactionsPopulated = <<>>
    /\ log = <<>>

swapExactAmountInParams(pair, amts) ==
    [liquidationPairAddress |-> pair,
     swapRecipient |-> "swapRecipient",
     exactAmountIn |-> amts.exactAmountIn,
     amountOutMin |-> amts.amountOutMin]

\* calculateProfit of liquidatorHandleArbSwap.ts, after its gas estimation.
legacyCalculateProfit(swapParams, fees, ctx, tokenOutAssetRateUsd, tokenInAssetRateUsd) ==
    LET tokenOutUsd == AmountUsd(swapParams.amountOutMin, ctx.tokenOutDecimals,
                                 tokenOutAssetRateUsd)
        tokenInUsd == AmountUsd(swapParams.exactAmountIn, ctx.tokenInDecimals,
                                tokenInAssetRateUsd)
        grossProfitUsd == tokenOutUsd - tokenInUsd
        netProfitUsd == grossProfitUsd - fees.maxFeeUsd
    IN  [estimatedProfitUsd |-> roundTwoDecimalPlaces(netProfitUsd),
         profitable |-> netProfitUsd > MIN_PROFIT_THRESHOLD_USD * UsdUnit,
         computed |-> TRUE,
         rewardUsd |-> grossProfitUsd,
         costUsd |-> fees.maxFeeUsd,
         netProfitUsd |-> netProfitUsd,
         threshold |-> MIN_PROFIT_THRESHOLD_USD * UsdUnit]

\* `continue` / the end of the loop body: the next pair, or the return.
LegacyNextPc == IF i + 1 > numPairs THEN "done" ELSE "getContext"
LegacyNextOutcome == IF i + 1 > numPairs THEN "returned" ELSE outcome

\* #1: getLiquidationContracts and the entry of the loop.
LegacyStart ==
    /\ bot = "legacy" /\ pc = "start"
    /\ log' = Append(log, <<0, "getLiquidationPairs">>)
    /\ pc' = IF numPairs = 0 THEN "done" ELSE "getContext"
    /\ outcome' = IF numPairs = 0 THEN "returned" ELSE outcome
    /\ UNCHANGED <<inputs, swapOnly, context, contract, gas, profit, decision,
                   approvals, approvePc, relayTxs, transactionsPopulated>>

\* getContext of the pair; a rejected read is not caught.
LegacyGetContext ==
    /\ bot = "legacy" /\ pc = "getContext"
    /\ log' = Append(log, <<i, "getContext">>)
    /\ \E ok \in BOOLEAN :
          IF ok
          THEN /\ context' = [kind |-> "legacy", pair |-> i,
                              tokenInDecimals |-> TokenInDecimals,
                              tokenOutDecimals |-> SwapTokenDecimals]
               /\ amounts' = NoLegacyAmounts
               /\ gas' = NoGas
               /\ profit' = NoProfit
               /\ pc' = "calculateAmounts"
               /\ outcome' = outcome
          ELSE /\ pc' = "done"
               /\ outcome' = "threw"
               /\ UNCHANGED <<context, amounts, gas, profit>>
    /\ UNCHANGED <<inputs, i, stats, total, contract, decision, approvals,
                   approvePc, relayTxs, transactionsPopulated>>

\* #2: calculateAmounts.
LegacyCalculateAmounts ==
    /\ bot = "legacy" /\ pc = "calculateAmounts"
    /\ \E exactAmountIn \in AmountInValues, amountOutMin \in AmountOutMinValues,
          rateIn \in RateValues, rateOut \in RateValues :
          amounts' = [exactAmountIn |-> exactAmountIn,
                      amountOutMin |-> amountOutMin,
                      tokenInAssetRateUsd |-> rateIn,
                      tokenOutAssetRateUsd |-> rateOut,
                      read |-> TRUE]
    /\ log' = Append(log, <<i, "calculateAmounts">>)
    /\ pc' = "simulate"
    /\ UNCHANGED <<inputs, outcome, i, stats, total, context, contract, gas,
                   profit, decision, approvals, approvePc, relayTxs,
                   transactionsPopulated>>

\* #3: callStatic.swapExactAmountIn; its revert is not caught.
LegacySimulate ==
    /\ bot = "legacy" /\ pc = "simulate"
    /\ \E ok \in BOOLEAN :
          IF ok
          THEN /\ log' = Append(log, <<i, "callStatic">>)
               /\ pc' = "calculateProfit"
               /\ outcome' = outcome
               /\ i' = i
          ELSE /\ log' = Append(Append(log, <<i, "callStatic">>),
                                <<i, "callStaticReverted">>)
               /\ pc' = "done"
               /\ outcome' = "threw"
               /\ i' = i
    /\ UNCHANGED <<inputs, amounts, stats, total, context, contract, gas,
                   profit, decision, approvals, approvePc, relayTxs,
                   transactionsPopulated>>

\* #4: calculateProfit and the `if (!profitable)` test after it; a rejected
\* estimateGas is not caught.
LegacyCalculateProfit ==
    /\ bot = "legacy" /\ pc = "calculateProfit"
    /\ \E nativeRate \in RateValues, estimate \in SwapGasValues,
          feeData \in FeeDataValues :
          IF estimate.failed
          THEN /\ log' = Append(Append(log, <<i, "estimateGas">>),
                                <<i, "estimateGasFailed">>)
               /\ pc' = "done"
               /\ outcome' = "threw"
               /\ UNCHANGED <<gas, profit, decision, i>>
          ELSE LET fees == getFeesUsd(estimate.units, nativeRate, feeData)
                   r == legacyCalculateProfit(swapExactAmountInParams(i, amounts),
                                              fees, context,
                                              amounts.tokenOutAssetRateUsd,
                                              amounts.tokenInAssetRateUsd)
               IN  /\ log' = Append(log, <<i, "estimateGas">>)
                   /\ gas' = [estimatedGasLimit |-> estimate, fees |-> fees]
                   /\ profit' = r
                   /\ decision' = [decision EXCEPT ![i] = Decided(r, estimate)]
                   /\ IF r.profitable
                      THEN /\ pc' = "checkBalance"
                           /\ outcome' = outcome
                           /\ i' = i
                      ELSE /\ pc' = LegacyNextPc
                           /\ outcome' = LegacyNextOutcome
                           /\ i' = i + 1
    /\ UNCHANGED <<inputs, amounts, stats, total, context, contract,
                   approvals, approvePc, relayTxs, transactionsPopulated>>

\* #5: checkBalance reads balanceOf itself; an insufficient balance skips
\* the pair.
LegacyCheckBalance ==
    /\ bot = "legacy" /\ pc = "checkBalance"
    /\ log' = Append(log, <<i, "checkBalance">>)
    /\ \E balanceResult \in LegacyBalanceValues :
          IF balanceResult > amounts.exactAmountIn
          THEN /\ pc' = "approve"
               /\ outcome' = outcome
               /\ i' = i
          ELSE /\ pc' = LegacyNextPc
               /\ outcome' = LegacyNextOutcome
               /\ i' = i + 1
    /\ UNCHANGED <<inputs, amounts, stats, total, context, contract, gas,
                   profit, decision, approvals, approvePc, relayTxs,
                   transactionsPopulated>>

\* #6: approve() reads the allowance itself, approves MaxInt256 when it is
\* below exactAmountIn and waits for the transaction; errors are caught.
LegacyApprove ==
    /\ bot = "legacy" /\ pc = "approve"
    /\ \E allowanceResult \in AllowanceValues, status \in {"confirmed", "failed"} :
          IF needsApproval(allowanceResult, amounts.exactAmountIn)
          THEN /\ approvals' = Append(approvals,
                      [opp |-> i, spender |-> "LiquidationRouter",
                       amount |-> MaxInt256, status |-> status])
               /\ log' = Append(Append(log, <<i, "allowance">>), <<i, "approve">>)
          ELSE /\ log' = Append(log, <<i, "allowance">>)
               /\ UNCHANGED approvals
    /\ pc' = "send"
    /\ UNCHANGED <<inputs, swapOnly, outcome, context, contract, gas, profit,
                   decision, approvePc, relayTxs, transactionsPopulated>>

\* #7: populate swapExactAmountIn and hand it to the relay; a rejection is
\* thrown again.
LegacySend ==
    /\ bot = "legacy" /\ pc = "send"
    /\ \E ok \in BOOLEAN :
          IF ok
          THEN /\ relayTxs' = Append(relayTxs,
                      [kind |-> "swapExactAmountIn", opp |-> i,
                       to |-> "LiquidationRouter",
                       args |-> swapExactAmountInParams(i, amounts),
                       gasLimit |-> LegacyGasLimit])
               /\ log' = Append(log, <<i, "relay">>)
               /\ pc' = LegacyNextPc
               /\ outcome' = LegacyNextOutcome
               /\ i' = i + 1
          ELSE /\ log' = Append(log, <<i, "relayFailed">>)
               /\ pc' = "done"
               /\ outcome' = "threw"
               /\ UNCHANGED <<relayTxs, i>>
    /\ UNCHANGED <<inputs, amounts, stats, total, context, contract, gas,
                   profit, decision, approvals, approvePc,
                   transactionsPopulated>>

NextLegacy ==
    \/ LegacyStart \/ LegacyGetContext \/ LegacyCalculateAmounts
    \/ LegacySimulate \/ LegacyCalculateProfit \/ LegacyCheckBalance
    \/ LegacyApprove \/ LegacySend

SpecLegacy == InitLegacy /\ [][NextLegacy]_vars

\* ------------------------------------------------------------------ claims
\* The minimum-profit threshold of the running bot: the configured one for
\* the swap and the auction bot, the claimer's constant for the claim bot.
BotThreshold ==
    IF bot = "claim"
    THEN MIN_PROFIT_THRESHOLD_USD * UsdUnit
    ELSE params.minProfitThresholdUsd

RelayedFor(o) == {k \in 1 .. Len(relayTxs) : relayTxs[k].opp = o}
PopulatedFor(o) ==
    {k \in 1 .. Len(transactionsPopulated) : transactionsPopulated[k].opp = o}
ApprovalsFor(o) == {k \in 1 .. Len(approvals) : approvals[k].opp = o}
HasStat(o, error) ==
    \E k \in 1 .. Len(stats) : stats[k].pair = o /\ stats[k].error.reason = error
\* Position of the first <<o, op>> in the log, 0 when there is none.
FirstLogged(o, op) ==
    IF Logged(o, op)
    THEN CHOOSE k \in 1 .. Len(log) :
            /\ log[k] = <<o, op>>
            /\ \A j \in 1 .. (k - 1) : log[j] # <<o, op>>
    ELSE 0

C2_ActionOnlyIfProfitable ==
    \A o \in Opportunities :
        (RelayedFor(o) # {} \/ PopulatedFor(o) # {}) =>
            (decision[o].decided /\ decision[o].profitable)

\* C2 witness: the second pair's swap is relayed after the first pair was
\* decided not profitable.
C2_Witness ==
    /\ bot = "swap"
    /\ decision[1].decided /\ ~decision[1].profitable
    /\ RelayedFor(1) = {}
    /\ RelayedFor(2) # {}

\* The amounts variable holds the amounts calculateAmounts returned for pair o.
AmountsOf(o) == context.kind = "swap" /\ context.pair = o /\ amounts.read

\* C3: the amountOut of a submitted swap is wantedAmountOut, that is
\* maxAmountOut / divisor, the amount computeExactAmountIn was asked for.
C3_SubmittedAmountOutIsWanted ==
    \A k \in 1 .. Len(relayTxs) :
        (relayTxs[k].kind = "swapExactAmountOut" /\ AmountsOf(relayTxs[k].opp)) =>
            /\ relayTxs[k].args.amountOut = amounts.maxAmountOut \div divisor
            /\ relayTxs[k].args.amountOut = amounts.wantedAmountOut

\* C4: while an approval submitted for an opportunity is unconfirmed, the
\* pipeline has not gone on: no gas estimation, no decision, no relayed
\* action for that opportunity, and the pipeline function has not ended.
C4_ApprovalConfirmedBeforeProceeding ==
    \A k \in 1 .. Len(approvals) :
        approvals[k].status = "pending" =>
            /\ ~Logged(approvals[k].opp, "estimateGas")
            /\ ~decision[approvals[k].opp].decided
            /\ RelayedFor(approvals[k].opp) = {}
            /\ outcome = "running"

\* C5: the relayed completeAuction is addressed to the contract that
\* determineContractToUse selected.
C5_CompleteAuctionToSelected ==
    \A k \in 1 .. Len(relayTxs) :
        relayTxs[k].kind = "completeAuction" => relayTxs[k].to = contract

\* C6: a failed populate / relay of one pair's swap is recorded in that
\* pair's outcome and does not abort the cycle.
C6_SendFailureDoesNotAbort ==
    \A o \in Opportunities :
        (bot = "swap" /\ Logged(o, "relayFailed")) =>
            /\ HasStat(o, "send failed")
            /\ outcome # "threw"

\* C7: in the swap bot a failed gas estimation makes the pair not
\* profitable with estimatedProfitUsd 0: nothing is relayed for it, a
\* not-profitable outcome is recorded, the loop has moved past the pair
\* without throwing, and the next pair (if any) is evaluated.
C7_GasEstimationFailureRejects ==
    bot = "swap" =>
    \A o \in Opportunities :
        (decision[o].decided /\ decision[o].estimateFailed) =>
            /\ ~decision[o].profitable
            /\ RelayedFor(o) = {}
            /\ ~Logged(o, "relay") /\ ~Logged(o, "relayFailed")
            /\ HasStat(o, "Not profitable")
            /\ \A k \in 1 .. Len(stats) :
                  stats[k].pair = o =>
                      stats[k].estimatedProfitUsd = 0 /\ stats[k].txHash = 0
            /\ (context.pair = o =>
                    profit.estimatedProfitUsd = 0 /\ ~profit.profitable)
            /\ i > o
            /\ (o < numPairs =>
                    (i = o + 1 /\ pc = "getContext") \/ Logged(o + 1, "getContext"))

\* C7 witness: gas estimation failed for pair 1 and pair 2 is being evaluated.
C7_Witness ==
    /\ bot = "swap"
    /\ decision[1].decided /\ decision[1].estimateFailed
    /\ Logged(2, "getContext")
    /\ outcome = "running"

\* C8: in the claim and the auction bot an unknown or zero gas estimate
\* rejects the opportunity: not profitable, nothing populated or relayed.
C8_UnknownGasRejected ==
    (bot \in {"claim", "auction"} /\ decision[1].decided
        /\ (decision[1].estimateFailed \/ decision[1].gasUnits = 0)) =>
            /\ ~decision[1].profitable
            /\ RelayedFor(1) = {}
            /\ PopulatedFor(1) = {}

C10_ZeroMaxAmountOutSkipsPair ==
    bot = "swap" =>
    \A o \in Opportunities :
        /\ (AmountsOf(o) /\ amounts.maxAmountOut = 0) =>
              /\ amounts.amountOut = 0
              /\ amounts.amountIn = 0
              /\ amounts.amountInMin = 0
              /\ ~amounts.queried
              /\ HasStat(o, "amountOut is 0")
              /\ i = o + 1
              /\ (outcome = "threw" => Logged(o + 1, "getContext"))
              /\ (o < numPairs =>
                     pc = "getContext" \/ Logged(o + 1, "getContext"))
        /\ HasStat(o, "amountOut is 0") =>
              /\ \A op \in {"computeExactAmountIn", "checkBalance", "approve",
                            "estimateGas", "relay", "relayFailed"} :
                     ~Logged(o, op)
              /\ ~decision[o].decided
              /\ ApprovalsFor(o) = {}
              /\ RelayedFor(o) = {}
              /\ \A k \in 1 .. Len(stats) :
                    stats[k].pair = o =>
                        stats[k].estimatedProfitUsd = 0 /\ stats[k].txHash = 0

\* C10 witness: pair 1 had maxAmountOut 0 and pair 2 is next.
C10_Witness ==
    /\ bot = "swap"
    /\ AmountsOf(1) /\ amounts.maxAmountOut = 0
    /\ HasStat(1, "amountOut is 0")
    /\ i = 2 /\ pc = "getContext"
    /\ outcome = "running"

\* The amount quoted by the "balance insufficient" error of pair o.
ReportedShortfall(o) ==
    LET k == CHOOSE k \in 1 .. Len(stats) :
                 stats[k].pair = o /\ stats[k].error.reason = "balance insufficient"
    IN  stats[k].error.amount

\* What C11 says of a pair whose balance check has been made, but for the
\* figure reported: the pair is sufficient exactly when the balance is
\* strictly greater than amountIn; an insufficient pair has the
\* "balance insufficient" outcome with estimatedProfitUsd 0, no approval,
\* gas estimation, decision or submission, and the loop has moved on.
BalanceCheckSkips(o) ==
    /\ (context.tokenInBalance > amounts.amountIn) =>
           ~HasStat(o, "balance insufficient")
    /\ (context.tokenInBalance <= amounts.amountIn) =>
           /\ HasStat(o, "balance insufficient")
           /\ \A k \in 1 .. Len(stats) :
                 stats[k].pair = o =>
                     /\ stats[k].error.reason = "balance insufficient"
                     /\ stats[k].estimatedProfitUsd = 0
                     /\ stats[k].txHash = 0
           /\ \A op \in {"approve", "estimateGas", "relay", "relayFailed"} :
                 ~Logged(o, op)
           /\ ApprovalsFor(o) = {}
           /\ RelayedFor(o) = {}
           /\ ~decision[o].decided
           /\ i = o + 1
           /\ (o < numPairs => pc = "getContext" \/ Logged(o + 1, "getContext"))
           /\ (outcome = "threw" => Logged(o + 1, "getContext"))

C12_RngPrecedence ==
    (bot = "auction" /\ contract # "none") =>
        /\ context.rngIsAuctionOpen => contract = "RNGAuction"
        /\ contract = "DrawAuction" <=>
               (~context.rngIsAuctionOpen /\ context.drawIsAuctionOpen)
        /\ decision[1].decided =>
               /\ contract = "RNGAuction" =>
                      profit.rewardUsd = context.rngExpectedRewardUsd
               /\ contract = "DrawAuction" =>
                      profit.rewardUsd = context.drawExpectedRewardUsd

\* C12 witness: both auctions are open and the decision was taken with the
\* RNG stage's reward, which differs from the Draw stage's.
C12_Witness ==
    /\ bot = "auction"
    /\ context.kind = "auction"
    /\ context.rngIsAuctionOpen /\ context.drawIsAuctionOpen
    /\ decision[1].decided
    /\ contract = "RNGAuction"
    /\ profit.rewardUsd = context.rngExpectedRewardUsd
    /\ context.rngExpectedRewardUsd # context.drawExpectedRewardUsd

\* C13: the cost of a computed decision is the maximum-fee estimate of the
\* opportunity's gas in the swap and the auction bot and the average-fee
\* estimate in the claim bot, and the net profit is the reward minus it.
C13_CostBasis ==
    profit.computed =>
        /\ bot \in {"swap", "auction"} => profit.costUsd = gas.fees.maxFeeUsd
        /\ bot = "claim" => profit.costUsd = gas.fees.avgFeeUsd
        /\ profit.netProfitUsd = profit.rewardUsd - profit.costUsd

\* C13 witness: a claim decision whose three fee estimates all differ.
C13_Witness ==
    /\ bot = "claim"
    /\ profit.computed
    /\ profit.costUsd = gas.fees.avgFeeUsd
    /\ gas.fees.baseFeeUsd < gas.fees.avgFeeUsd
    /\ gas.fees.avgFeeUsd < gas.fees.maxFeeUsd

\* C14: in the claim bot, when the winners' list is empty the cycle has
\* aborted with an error: no gas estimation, no decision, nothing populated.
C14_ZeroWinnersFatal ==
    (bot = "claim" /\ Logged(1, "getWinners") /\ context.claims = <<>>) =>
        /\ pc = "done"
        /\ outcome = "threw"
        /\ ~Logged(1, "estimateGas")
        /\ ~decision[1].decided
        /\ transactionsPopulated = <<>>

\* C15: in the swap and the claim bot a cycle whose vault discovery returns
\* no vault evaluates no opportunity: no pair context, amounts, balance
\* check, gas estimation or decision, nothing approved, populated or
\* relayed; once the vaults were read the function has thrown.
C15_ZeroVaultsFatal ==
    (bot \in {"swap", "claim"} /\ params.numVaults = 0) =>
        /\ \A o \in Opportunities :
              /\ \A op \in {"maxAmountOut", "computeExactAmountIn", "checkBalance",
                            "approve", "estimateGas", "callStatic", "getWinners",
                            "relay", "relayFailed"} : ~Logged(o, op)
              /\ ~decision[o].decided
        /\ stats = <<>>
        /\ approvals = <<>>
        /\ relayTxs = <<>>
        /\ transactionsPopulated = <<>>
        /\ outcome # "returned"
        /\ Logged(0, "getSubgraphVaults") => (pc = "done" /\ outcome = "threw")

\* C15 witness: the swap bot found two pairs and no vault, and has thrown.
C15_Witness ==
    /\ bot = "swap"
    /\ params.numVaults = 0
    /\ numPairs = 2
    /\ Logged(0, "getSubgraphVaults")
    /\ outcome = "threw"

\* C16: a swap cycle whose pair discovery returned no pair never reaches
\* the summary and ends by throwing.
C16_ZeroPairsFatal ==
    (bot = "swap" /\ numPairs = 0 /\ Logged(0, "getLiquidationPairs")) =>
        /\ pc # "summary"
        /\ outcome # "returned"
        /\ pc = "done" => outcome = "threw"

\* C17: an approval that failed (token.approve or its confirmation
\* rejected) is surfaced: the opportunity's outcome records an error for it
\* or the pipeline function has thrown.
C17_ApprovalFailureSurfaced ==
    \A k \in 1 .. Len(approvals) :
        approvals[k].status = "failed" =>
            \/ outcome = "threw"
            \/ \E j \in 1 .. Len(stats) :
                  /\ stats[j].pair = approvals[k].opp
                  /\ stats[j].error.reason \notin {"", "Not profitable"}

\* C18: the swap bot handles the pairs one after the other in discovery
\* order: the operations performed are ordered by pair, none belongs to a
\* pair beyond the current one, every approval of an earlier pair has
\* completed (confirmed or failed), and outcomes and relayed swaps are in
\* pair order with at most one of each per pair.
C18_PairsSequential ==
    bot = "swap" =>
        /\ \A a \in 1 .. Len(log) : \A b \in a .. Len(log) :
              (log[a][1] > 0 /\ log[b][1] > 0) => log[a][1] <= log[b][1]
        /\ \A a \in 1 .. Len(log) : log[a][1] <= i
        /\ \A k \in 1 .. Len(approvals) :
              approvals[k].opp < i => approvals[k].status \in {"confirmed", "failed"}
        /\ \A a \in 1 .. Len(stats) : \A b \in (a + 1) .. Len(stats) :
              stats[a].pair < stats[b].pair
        /\ \A a \in 1 .. Len(relayTxs) : \A b \in (a + 1) .. Len(relayTxs) :
              relayTxs[a].opp < relayTxs[b].opp
        /\ \A o \in Opportunities :
              Logged(o, "getContext") =>
                  \A p \in 1 .. (o - 1) :
                      /\ \E k \in 1 .. Len(stats) : stats[k].pair = p
                      /\ FirstLogged(p, "getContext") < FirstLogged(o, "getContext")

\* C18 witness: pair 1 was approved, confirmed and relayed, and pair 2's
\* context has been read.
C18_Witness ==
    /\ bot = "swap"
    /\ \E k \in ApprovalsFor(1) : approvals[k].status = "confirmed"
    /\ RelayedFor(1) # {}
    /\ Logged(2, "getContext")
    /\ FirstLogged(1, "relay") < FirstLogged(2, "getContext")

\* The pair under evaluation is past its getContext.
InIteration ==
    pc \in {"calculateAmounts", "checkBalance", "approve", "approveWait",
            "calculateProfit", "send"}

\* Position in the log of the last operation of a pair before o, 0 if none.
LastEarlier(o) ==
    LET earlier == {k \in 1 .. Len(log) : log[k][1] > 0 /\ log[k][1] < o}
    IN  IF earlier = {} THEN 0
        ELSE CHOOSE k \in earlier : \A j \in earlier : j <= k

\* C19: while the swap bot evaluates pair i, the balance and allowance it
\* uses are those of a context read in pair i's own iteration, after every
\* operation (approval, submission) of the earlier pairs.
C19_FreshContextPerPair ==
    (bot = "swap" /\ InIteration) =>
        /\ context.kind = "swap"
        /\ context.pair = i
        /\ FirstLogged(i, "getContext") > LastEarlier(i)
        /\ \A op \in {"checkBalance", "approve", "estimateGas", "relay"} :
              Logged(i, op) => FirstLogged(i, "getContext") < FirstLogged(i, op)

\* C19 witness: pair 1 was approved and relayed, and pair 2's balance check
\* is made on pair 2's own context.
C19_Witness ==
    /\ bot = "swap"
    /\ ApprovalsFor(1) # {}
    /\ RelayedFor(1) # {}
    /\ i = 2
    /\ Logged(2, "checkBalance")
    /\ context.pair = 2

\* C20: a computed swap decision has gross profit = the USD value of the
\* wanted output amount (maxAmountOut / divisor) minus the USD value of
\* amountIn, and net profit = gross - maxFeeUsd; with maxAmountOut 1000,
\* amountIn 80, rates $1 and maxFeeUsd $50 that is gross $420, net $370,
\* profitable.
C20_GrossFromWantedAmountOut ==
    (bot = "swap" /\ profit.computed /\ amounts.read) =>
        /\ profit.rewardUsd =
               AmountUsd(amounts.maxAmountOut \div divisor,
                         context.tokenOutDecimals, context.tokenOutAssetRateUsd)
               - AmountUsd(amounts.amountIn, context.tokenInDecimals,
                           context.tokenInAssetRateUsd)
        /\ profit.netProfitUsd = profit.rewardUsd - gas.fees.maxFeeUsd
        /\ (/\ amounts.maxAmountOut = 1000
            /\ amounts.amountIn = 80 * Pow10(context.tokenInDecimals)
            /\ gas.fees.maxFeeUsd = 50 * UsdUnit) =>
               /\ profit.rewardUsd = 420 * UsdUnit
               /\ profit.netProfitUsd = 370 * UsdUnit
               /\ profit.profitable

\* C21: in the claim bot a reverted static simulation of claimPrizes gives
\* a decision computed with totalFees 0 that is not profitable; the
\* function has returned an empty list and has not thrown.
C21_SimulationRevertNotProfitable ==
    (bot = "claim" /\ Logged(1, "callStaticReverted")) =>
        /\ profit.computed
        /\ profit.rewardUsd = 0
        /\ decision[1].decided /\ ~decision[1].profitable
        /\ transactionsPopulated = <<>>
        /\ pc = "done"
        /\ outcome = "returned"

\* C21 witness: the simulation reverted while the gas estimate was 100 units.
C21_Witness ==
    /\ bot = "claim"
    /\ Logged(1, "callStaticReverted")
    /\ decision[1].decided /\ decision[1].gasUnits = 100
    /\ outcome = "returned"
    /\ transactionsPopulated = <<>>

\* C22: every transaction handed to the relay by the swap and the auction
\* bot carries isPrivate = canUseIsPrivate(chain, useFlashbots); it is
\* private only if the chain supports private routing and the operator
\* flag is on.
C22_PrivateFlag ==
    \A k \in 1 .. Len(relayTxs) :
        /\ relayTxs[k].isPrivate =
               canUseIsPrivate(params.chainSupportsPrivate, params.useFlashbots)
        /\ relayTxs[k].isPrivate =>
               (params.chainSupportsPrivate /\ params.useFlashbots)

\* C22 witness: the operator flag is on, the chain has no private routing,
\* and the auction's transaction was relayed without the private flag.
C22_Witness ==
    /\ bot = "auction"
    /\ params.useFlashbots /\ ~params.chainSupportsPrivate
    /\ Len(relayTxs) = 1
    /\ ~relayTxs[1].isPrivate

\* C23: the profitable flag of a computed decision compares the unrounded
\* net profit with the threshold; the rounding to two decimal places only
\* makes the reported estimatedProfitUsd.  A net profit above the threshold
\* that rounds down to it is profitable; one at or below the threshold is
\* not, whatever it rounds to.
C23_UnroundedComparison ==
    profit.computed =>
        /\ profit.profitable <=> (profit.netProfitUsd > profit.threshold)
        /\ profit.threshold = BotThreshold
        /\ profit.estimatedProfitUsd = roundTwoDecimalPlaces(profit.netProfitUsd)
        /\ (/\ profit.netProfitUsd > profit.threshold
            /\ roundTwoDecimalPlaces(profit.netProfitUsd) <= profit.threshold) =>
               profit.profitable
        /\ profit.netProfitUsd <= profit.threshold => ~profit.profitable

\* C23 witness: a net profit of $5.004 against a threshold of $5 rounds to
\* $5.00 and is profitable.
C23_Witness ==
    /\ bot = "auction"
    /\ profit.computed
    /\ profit.threshold = 5 * UsdUnit
    /\ profit.netProfitUsd = 5 * UsdUnit + 4
    /\ profit.estimatedProfitUsd = 5 * UsdUnit
    /\ profit.profitable

\* C24: a cycle of liquidatorArbitrageSwap that reaches the summary has one
\* outcome per liquidation pair, in the order the pairs were evaluated; the
\* reported total is the sum of the outcomes' estimatedProfitUsd, and a pair
\* with no submitted transaction has estimatedProfitUsd 0.
C24_SummaryOnePerPair ==
    (bot = "swap" /\ outcome = "returned") =>
        /\ Len(stats) = numPairs
        /\ \A k \in 1 .. Len(stats) :
              /\ stats[k].pair = k
              /\ (stats[k].txHash # 0) <=> (RelayedFor(k) # {})
              /\ RelayedFor(k) = {} => stats[k].estimatedProfitUsd = 0
        /\ total = SumProfit(stats)

\* C24 witness: a summary over two pairs, one swapped and one rejected, with
\* a positive total.
C24_Witness ==
    /\ bot = "swap" /\ outcome = "returned"
    /\ numPairs = 2 /\ Len(stats) = 2
    /\ RelayedFor(1) # {} /\ RelayedFor(2) = {}
    /\ stats[1].estimatedProfitUsd > 0
    /\ total = stats[1].estimatedProfitUsd

\* C25: the candidate parameters are a function of the reads of the current
\* evaluation and of the configuration only, so that two evaluations over
\* the same reads give the same parameters: the swap tuple is the pair, the
\* recipient, the amount read and the MaxInt256 bound; the claim tuple is
\* the draw, the winners read and the fee recipient; the auction tuple is
\* the reward recipient.
C25_ParametersFromReads ==
    /\ (bot = "swap" /\ context.kind = "swap" /\ amounts.read) =>
          LET expected == [liquidationPairAddress |-> context.pair,
                           swapRecipient |-> "swapRecipient",
                           amountOut |-> amounts.maxAmountOut,
                           amountInMin |-> IF amounts.maxAmountOut = 0
                                           THEN 0 ELSE MaxInt256]
          IN  /\ swapExactAmountOutParams(context.pair, amounts) = expected
              /\ \A k \in RelayedFor(context.pair) : relayTxs[k].args = expected
    /\ bot = "claim" =>
          \A k \in 1 .. Len(transactionsPopulated) :
              transactionsPopulated[k].args =
                  [drawId |-> context.drawId, claims |-> context.claims,
                   feeRecipient |-> "feeRecipient"]
    /\ bot = "auction" =>
          \A k \in 1 .. Len(relayTxs) :
              relayTxs[k].args = [rewardRecipient |-> "rewardRecipient"]

\* C25 witness: two pairs evaluated over the same amount read, after a swap
\* was already sent for the first, are submitted with the same amounts.
C25_Witness ==
    /\ bot = "swap" /\ Len(relayTxs) = 2
    /\ relayTxs[1].opp = 1 /\ relayTxs[2].opp = 2
    /\ relayTxs[1].args.amountOut = relayTxs[2].args.amountOut
    /\ relayTxs[1].args.amountInMin = relayTxs[2].args.amountInMin
    /\ amounts.read /\ amounts.maxAmountOut = relayTxs[2].args.amountOut

\* C26: getClaimerProfitablePrizeTxs returns, when the decision is
\* profitable, a list of exactly one claimPrizes transaction of the Claimer
\* for the last completed draw, all the winners read and the configured fee
\* recipient; when the decision is not profitable it returns the empty list.
C26_ClaimReturnsOneOrNone ==
    (bot = "claim" /\ outcome = "returned") =>
        /\ decision[1].decided
        /\ decision[1].profitable =>
              /\ Len(transactionsPopulated) = 1
              /\ transactionsPopulated[1].kind = "claimPrizes"
              /\ transactionsPopulated[1].to = "Claimer"
              /\ transactionsPopulated[1].args.drawId = context.drawId
              /\ transactionsPopulated[1].args.claims = context.claims
              /\ transactionsPopulated[1].args.feeRecipient = "feeRecipient"
        /\ ~decision[1].profitable => transactionsPopulated = <<>>

\* C26 witness: a profitable claim over two winners returns one transaction
\* that names both.
C26_Witness ==
    /\ bot = "claim" /\ outcome = "returned"
    /\ decision[1].profitable
    /\ Len(context.claims) = 2
    /\ Len(transactionsPopulated) = 1
    /\ transactionsPopulated[1].args.claims = context.claims

\* The swap bot is through the approval step of the pair of the context, or
\* has skipped the pair before it.
PastApproveStep ==
    /\ bot = "swap" /\ context.kind = "swap" /\ amounts.read
    /\ pc \notin {"checkBalance", "approve"}

C28_OneActionPerOpportunity ==
    [][/\ Len(relayTxs') >= Len(relayTxs)
       /\ \A k \in 1 .. Len(relayTxs) :
             /\ relayTxs'[k].kind = relayTxs[k].kind
             /\ relayTxs'[k].opp = relayTxs[k].opp
             /\ relayTxs'[k].to = relayTxs[k].to
             /\ relayTxs'[k].args = relayTxs[k].args
             /\ relayTxs'[k].isPrivate = relayTxs[k].isPrivate
             /\ relayTxs'[k].gasLimit = relayTxs[k].gasLimit
       /\ Len(relayTxs') # Len(relayTxs) =>
             /\ Len(relayTxs') = Len(relayTxs) + 1
             /\ LET o == relayTxs'[Len(relayTxs')].opp
                IN  /\ ~Logged(o, "relay")
                    /\ ~Logged(o, "relayFailed")
                    /\ RelayedFor(o) = {}
       /\ \A o \in Opportunities :
             Logged(o, "relayFailed") => log' = log]_vars

\* C28 witness: the swap of pair 1 was relayed once, the relay rejected the
\* swap of pair 2, and the cycle ended with the one transaction.
C28_Witness ==
    /\ bot = "swap" /\ pc = "done"
    /\ Logged(1, "relay") /\ Logged(2, "relayFailed")
    /\ Cardinality(RelayedFor(1)) = 1
    /\ RelayedFor(2) = {}
    /\ Len(relayTxs) = 1

C30_WaitsForConfirmation ==
    /\ []((bot = "auction" /\ pc = "waitForTransaction") =>
             /\ outcome = "running"
             /\ decision[1].decided /\ decision[1].profitable
             /\ Len(relayTxs) = 1
             /\ Logged(1, "relay"))
    /\ []((/\ bot = "auction" /\ outcome = "returned"
           /\ decision[1].decided /\ decision[1].profitable) =>
             /\ Len(relayTxs) = 1
             /\ relayTxs[1].confirmed
             /\ Logged(1, "waitResolved")
             /\ FirstLogged(1, "relay") < FirstLogged(1, "waitResolved"))
    /\ ((/\ bot = "auction" /\ pc = "waitForTransaction"
         /\ relayTxs[Len(relayTxs)].confirmed) ~> pc = "done")

\* C30 witness: the relayed completeAuction was confirmed, the wait resolved
\* and the function returned.
C30_Witness ==
    /\ bot = "auction" /\ outcome = "returned" /\ pc = "done"
    /\ decision[1].profitable
    /\ Len(relayTxs) = 1 /\ relayTxs[1].confirmed
    /\ Logged(1, "waitResolved")

\* C31: in the auction bot, with the RNG auction open and a positive fee, a
\* relayer balance of the fee token that is at most rngFeeAmount (equal to
\* it included) gets the shortfall warning, and the cycle does not end with
\* an error at the context step because of it.
C31_RngFeeBalanceStrict ==
    (/\ bot = "auction" /\ context.kind = "auction"
     /\ context.rngIsAuctionOpen /\ context.rngFeeAmount > 0
     /\ context.rngFeeTokenBalance <= context.rngFeeAmount) =>
        /\ Logged(1, "balanceWarning")
        /\ pc # "getContext"

\* C32: when a required contract cannot be resolved (PrizePool, RNGAuction
\* or DrawAuction for the auction bot, Claimer for the claim bot) the cycle
\* ends with an error before any chain interaction: no context is read,
\* no gas is estimated, no decision is made, nothing is approved, relayed
\* or populated, and nothing follows.
C32_MissingContractFatal ==
    /\ [](Logged(0, "contractMissing") =>
             /\ bot \in {"auction", "claim"}
             /\ outcome = "threw" /\ pc = "done"
             /\ log = <<<<0, "contractMissing">>>>
             /\ context = NoContext
             /\ gas = NoGas
             /\ ~profit.computed
             /\ \A o \in Opportunities : ~decision[o].decided
             /\ approvals = <<>> /\ approvePc = "idle"
             /\ relayTxs = <<>>
             /\ transactionsPopulated = <<>>)
    /\ [][Logged(0, "contractMissing") => UNCHANGED vars]_vars

\* C32 witness: the auction bot ended with the error and nothing else.
C32_Witness ==
    /\ bot = "auction"
    /\ Logged(0, "contractMissing")
    /\ outcome = "threw" /\ pc = "done"
    /\ context = NoContext /\ relayTxs = <<>>

\* C33: getFeesUsd returns the base and the maximum fee as gas units times
\* the base fee per gas and the maximum fee per gas, converted at the
\* native token's rate, and their arithmetic mean as the average.  With a
\* base fee per gas at most the maximum fee per gas the three are ordered
\* base <= avg <= max; with a positive gas limit and a base fee per gas
\* above the maximum fee per gas they are not.
C33_AvgIsMean ==
    context.kind = "fees" =>
        LET f == gas.fees
            d == context.feeData
            g == context.estimatedGasLimit
            r == context.nativeTokenMarketRateUsd
        IN  /\ f.baseFeeUsd =
                  AmountUsd(d.lastBaseFeePerGas * g, NativeTokenDecimals, r)
            /\ f.maxFeeUsd =
                  AmountUsd(d.maxFeePerGas * g, NativeTokenDecimals, r)
            /\ f.avgFeeUsd = (f.baseFeeUsd + f.maxFeeUsd) \div 2
            /\ f.avgFeeUsd * 2 = f.baseFeeUsd + f.maxFeeUsd
            /\ d.lastBaseFeePerGas <= d.maxFeePerGas =>
                  (f.baseFeeUsd <= f.avgFeeUsd /\ f.avgFeeUsd <= f.maxFeeUsd)
            /\ (g > 0 /\ d.lastBaseFeePerGas > d.maxFeePerGas) =>
                  (f.maxFeeUsd < f.avgFeeUsd /\ f.avgFeeUsd < f.baseFeeUsd)

\* C33 witness: a base fee below the maximum fee gives an average strictly
\* between the two.
C33_Witness ==
    /\ context.kind = "fees"
    /\ context.estimatedGasLimit = 100
    /\ context.feeData.lastBaseFeePerGas = 250
    /\ context.feeData.maxFeePerGas = 1000
    /\ gas.fees.baseFeeUsd < gas.fees.avgFeeUsd
    /\ gas.fees.avgFeeUsd < gas.fees.maxFeeUsd
    /\ 2 * gas.fees.avgFeeUsd = gas.fees.baseFeeUsd + gas.fees.maxFeeUsd

\* C34: the approval of the auction bot names the RNG-stage auction
\* contract, which pulls the fee, as the spender of the relayer's RNG fee
\* token.
C34_ApprovalSpenderIsRngAuction ==
    bot = "auction" =>
        \A k \in 1 .. Len(approvals) : approvals[k].spender = "RNGAuction"

\* C35: in the legacy liquidatorHandleArbSwap a reverted simulation of
\* swapExactAmountIn, or a failed gas estimation, for a pair stays with the
\* pair: the cycle does not end with an error, nothing is approved or relayed
\* for the pair, and once the cycle is over every later pair was evaluated.
C35_LegacySimulationFailureLocal ==
    bot = "legacy" =>
        \A o \in Opportunities :
            (Logged(o, "callStaticReverted") \/ Logged(o, "estimateGasFailed")) =>
                /\ outcome # "threw"
                /\ ApprovalsFor(o) = {}
                /\ RelayedFor(o) = {}
                /\ pc = "done" =>
                      \A p \in (o + 1) .. numPairs : Logged(p, "getContext")

\* C36: when the context of prepareDrawAuctionTxs shows neither the RNG nor
\* the Draw auction open, the function has returned after the context read
\* and has done nothing else: no contract is selected, no balance warning,
\* no approval, no gas estimation, no decision and no relayed transaction,
\* and nothing follows.
C36_NoAuctionOpenNoEffect ==
    /\ []((/\ bot = "auction" /\ context.kind = "auction"
           /\ ~context.rngIsAuctionOpen /\ ~context.drawIsAuctionOpen) =>
             /\ outcome = "returned" /\ pc = "done"
             /\ log = <<<<1, "getContext">>>>
             /\ contract = "none"
             /\ approvals = <<>> /\ approvePc = "idle"
             /\ gas = NoGas
             /\ ~profit.computed
             /\ ~decision[1].decided
             /\ relayTxs = <<>>)
    /\ [][(/\ bot = "auction" /\ context.kind = "auction"
           /\ ~context.rngIsAuctionOpen /\ ~context.drawIsAuctionOpen) =>
             UNCHANGED vars]_vars

\* C36 witness: no auction is open although the allowance is below the fee
\* and the balance is short; the function returned with nothing done.
C36_Witness ==
    /\ bot = "auction" /\ context.kind = "auction"
    /\ ~context.rngIsAuctionOpen /\ ~context.drawIsAuctionOpen
    /\ context.rngFeeTokenAllowance < context.rngFeeAmount
    /\ context.rngFeeTokenBalance < context.rngFeeAmount
    /\ outcome = "returned" /\ pc = "done"
    /\ approvals = <<>> /\ relayTxs = <<>>

\* C37: the auction bot prints the balance warning or starts an approval of
\* the RNG fee token only with the RNG auction open and rngFeeAmount > 0;
\* with only the Draw auction open, or with a fee of 0, there is neither,
\* whatever the balance and the allowance of the context are.
C37_ApprovalOnlyForOpenRngWithFee ==
    (bot = "auction" /\ context.kind = "auction") =>
        /\ (approvals # <<>> \/ Logged(1, "approve") \/ Logged(1, "balanceWarning")) =>
              (context.rngIsAuctionOpen /\ context.rngFeeAmount > 0)
        /\ (~context.rngIsAuctionOpen \/ context.rngFeeAmount = 0) =>
              /\ approvals = <<>>
              /\ approvePc = "idle"
              /\ ~Logged(1, "balanceWarning")

\* C37 witness: only the Draw auction is open, the balance and the
\* allowance are below the fee, and the cycle went on to relay the
\* completion with no warning and no approval.
C37_Witness ==
    /\ bot = "auction" /\ context.kind = "auction"
    /\ ~context.rngIsAuctionOpen /\ context.drawIsAuctionOpen
    /\ context.rngFeeAmount > 0
    /\ context.rngFeeTokenAllowance < context.rngFeeAmount
    /\ context.rngFeeTokenBalance < context.rngFeeAmount
    /\ Len(relayTxs) = 1
    /\ approvals = <<>> /\ ~Logged(1, "balanceWarning")

\* C38: every outcome of liquidatorArbitrageSwap has either a transaction
\* hash or an error, never both and never neither.  An outcome with a hash
\* belongs to a pair whose decision was profitable and whose swap was
\* relayed, and its estimatedProfitUsd is the rounded net profit, which was
\* above the threshold before rounding; an outcome with an error has
\* estimatedProfitUsd 0.
C38_OutcomeHashXorError ==
    bot = "swap" =>
        \A k \in 1 .. Len(stats) :
            LET s == stats[k] IN
            /\ (s.txHash # 0) <=> (s.error.reason = "")
            /\ s.txHash # 0 =>
                  /\ s.txHash \in 1 .. Len(relayTxs)
                  /\ relayTxs[s.txHash].opp = s.pair
                  /\ decision[s.pair].decided /\ decision[s.pair].profitable
                  /\ (context.pair = s.pair /\ profit.computed) =>
                        /\ s.estimatedProfitUsd =
                              roundTwoDecimalPlaces(profit.netProfitUsd)
                        /\ profit.netProfitUsd > params.minProfitThresholdUsd
            /\ s.error.reason # "" =>
                  /\ s.estimatedProfitUsd = 0
                  /\ RelayedFor(s.pair) = {}

\* C38 witness: one outcome with a hash and a positive profit, one with the
\* "Not profitable" error and no hash.
C38_Witness ==
    /\ bot = "swap" /\ Len(stats) = 2
    /\ stats[1].txHash # 0 /\ stats[1].error.reason = ""
    /\ stats[1].estimatedProfitUsd > 0
    /\ stats[2].txHash = 0 /\ stats[2].error.reason = "Not profitable"
    /\ stats[2].estimatedProfitUsd = 0

\* The calls of the claim bot that only read: contract reads, the subgraph
\* query, the gas estimation and the static simulation.
ClaimReadOps ==
    {<<1, "getContext">>, <<0, "getSubgraphVaults">>, <<1, "getWinners">>,
     <<1, "estimateGas">>, <<1, "callStatic">>, <<1, "callStaticReverted">>,
     <<0, "contractMissing">>}

\* C39: getClaimerProfitablePrizeTxs writes nothing: on every path it
\* starts no approval and relays no transaction, the calls it makes are
\* reads, the gas estimation and the static simulation, and what it hands
\* back is the list of populated transactions.
C39_ClaimerWritesNothing ==
    bot = "claim" =>
        /\ approvals = <<>> /\ approvePc = "idle"
        /\ relayTxs = <<>>
        /\ stats = <<>>
        /\ \A k \in 1 .. Len(log) : log[k] \in ClaimReadOps
        /\ transactionsPopulated # <<>> => outcome = "returned"

\* C39 witness: a profitable claim was populated and returned; nothing was
\* approved or relayed.
C39_Witness ==
    /\ bot = "claim" /\ outcome = "returned"
    /\ decision[1].profitable
    /\ Len(transactionsPopulated) = 1
    /\ Logged(1, "estimateGas") /\ Logged(1, "callStatic")
    /\ relayTxs = <<>> /\ approvals = <<>>

====
